---- MODULE Spec2Model ----
(***************************************************************************)
(* A model of the MemoryGraph document ingestion core:                     *)
(*   - Chunker.createChunks              (utils/chunker.js)                *)
(*   - PDFParser.parse and its stages    (utils/fileParser/pdfParser.js)   *)
(*   - MemoryGraph.extractEntitiesFromChunks (services/memoryGraph.js)     *)
(*   - MemoryGraph.analyzeRelationships  (services/memoryGraph.js)         *)
(*   - TextParser.jsonToText             (utils/fileParser/textParser.js)  *)
(*   - FileParser.parseFile              (utils/fileParser/index.js)       *)
(*   - DocumentProcessor.processDocument (services/documentProcessor.js)   *)
(*     with the upload route's background run (routes/upload.js)           *)
(*   - DocumentProcessor.deleteDocument  (services/documentProcessor.js)   *)
(*                                                                         *)
(* A text is kept run-length encoded: a sequence of runs, each a record    *)
(* [ws |-> BOOLEAN, n |-> Nat] standing for n whitespace characters or n   *)
(* non-whitespace characters.  substring and trim are computed on that     *)
(* representation character-exactly.                                       *)
(***************************************************************************)
EXTENDS Integers, Sequences, FiniteSets, TLC

VARIABLES
    \* ---- Chunker.createChunks
    text,        \* the (possibly truncated) text argument
    chunkSize,   \* argument
    overlap,     \* argument
    chunks,      \* the result array under construction
    start,       \* loop variable
    chunkIndex,  \* loop variable
    cpc,         \* position in createChunks: "idle", "loop", "body", "done"
    dropped,     \* history: the slices <<start, end>> examined and not emitted
    \* ---- PDFParser (a module-level singleton shared by every parse call)
    ocrWorker,     \* this.ocrWorker: "null" or the worker (named by the run that created it)
    workerState,   \* per worker: "none", "alive", "terminated"
    tempDirExists, \* whether this.tempDir exists on disk
    files,         \* this.tempDir/page.<k>.png: the run whose page it holds, or "none"
    run,           \* per parse call: its control point and locals
    \* ---- MemoryGraph.extractEntitiesFromChunks
    responses,      \* per chunk, the entity array aiService.extractEntities resolves to
    allEntitiesMap, \* the Map, as its entries [key, value] in insertion order
    batchStart,     \* the loop variable i
    pending,        \* chunk positions of the batch whose extractEntities call is unsettled
    allEntities,    \* the returned array
    epc,            \* position: "idle", "promiseAll", "delay", "done"
    merged,         \* history: the observations merged so far, in merge order
    \* ---- MemoryGraph.analyzeRelationships
    relChunks,       \* argument chunks: the content of each chunk
    nodes,           \* argument nodes: the persisted nodes [id, name, type]
    cooccurrenceMap, \* the Map, as its entries [key, value] in insertion order
    relChunkIndex,   \* the loop variable chunkIndex of the scan
    validEdges,      \* the counters that pass the filter
    edgeIndex,       \* position of the persisting loop in validEdges
    edges,           \* the returned array
    graphEdges,      \* the rows this call inserted into graph_edges
    proposals,       \* the relationships the LLM proposed
    createFailures,  \* history: failed createGraphEdge calls of the co-occurrence pass
    rpc,             \* position: "idle", "scan", "persist", "chat", "semantic", "done"
    \* ---- TextParser.jsonToText
    jsonData,        \* argument jsonData: the parsed JSON value
    jsonOptions,     \* argument options: whether maxDepth is set, and its value
    jsonText,        \* the returned string
    jpc,             \* position: "idle", "called", "done"
    \* ---- FileParser.parseFile
    fileBuffer,      \* argument fileBuffer: its type and length
    filename,        \* argument filename: its type and characters
    parseResult,     \* the returned object
    fpc,             \* position: "idle", "parse" (awaiting parser.parse), "done"
    \* ---- DocumentProcessor.processDocument and the upload route's background run
    docArgs,         \* the arguments and the collaborators' availability during the run
    storageFiles,    \* number of files this run uploaded to object storage
    documents,       \* the row of the document in `documents`
    chunkRows,       \* the rows of the document in `chunks`, in insertion order
    vectorIndex,     \* the ids of the vectors in the index
    graphRows,       \* number of rows of the document in graph_nodes and graph_edges
    events,          \* the socket events emitted to the user
    statusWrites,    \* history: the statuses written to the row, in order
    documentId,      \* the local documentId: "none" for null
    docText,         \* the local text
    docChunks,       \* the local chunks
    processedChunks, \* the local processedChunks: the vector_id of each
    graphData,       \* the local graphData, with the failure that shaped it
    docError,        \* the error caught, "none" when none
    dpc,             \* position: the awaited call, or "idle", "returned", "thrown", "finished"
    \* ---- DocumentProcessor.deleteDocument
    storedDocument,  \* the row in `documents`: whether it exists, is the caller's, has a file_url
    storedChunks,    \* the vector_id of each row of the document in `chunks`
    storedVectors,   \* the ids of the document's vectors in the index
    storedGraph,     \* number of the document's rows in graph_nodes and graph_edges
    storedFile,      \* whether the file is in object storage
    deleteChunks,    \* the local chunks, those whose vector is still to be deleted
    deleteResult,    \* "none", "success" or "thrown"
    xpc,             \* position: the awaited call, or "idle", "done"
    \* ---- VectorDB.initialize
    vdbIndex,         \* this.index: whether it is set
    vdbPinecone,      \* this.pinecone: whether the client was created
    vdbInitializing,  \* this._initializing: "null", or the promise "pending", "fulfilled", "rejected"
    vdbBody,          \* position of the initialization body: "none", the awaited call, "done", "failed"
    bodyRuns,         \* history: how many times the initialization body was started
    caller,           \* per caller: its position and the calls it has made
    nullIndexOps,     \* history: index operations started while this.index was null
    \* ---- ChatService.processQuery and searchDocuments
    ownerOf,          \* the user_id of each row of `documents`, "none" while it is not ingested
    pineconeVectors,  \* the vectors of the index: [id, document_id, user_id] of the metadata
    chunksTable,      \* the rows of `chunks`: [vector_id, document_id]
    chatQuery,        \* the call: [op, userId, documentId]
    vectorResults,    \* the matches queryVector returned, best first
    resultIndex,      \* position of the loop over the matches
    contextChunks,    \* the chunk rows collected, which the call returns
    qpc,              \* position: "idle", "queryVector", "getChunkByVectorId", "done"
    \* ---- TextCleaner.clean and detectOcrIssues
    cleanArgs,        \* the call: [text, fixOCR], the text and options.fixOCR
    cleanedOnce,      \* clean(text, options)
    cleanedTwice,     \* clean(clean(text, options), options)
    ocrDetected,      \* what detectOcrIssues(text) returned
    tpc               \* position: "idle", "cleaned", "recleaned", "detected"

chunkVars == <<text, chunkSize, overlap, chunks, start, chunkIndex, cpc, dropped>>

pdfVars == <<ocrWorker, workerState, tempDirExists, files, run>>

entVars == <<responses, allEntitiesMap, batchStart, pending, allEntities, epc, merged>>

relVars == <<relChunks, nodes, cooccurrenceMap, relChunkIndex, validEdges, edgeIndex, edges,
            graphEdges, proposals, createFailures, rpc>>

jsonVars == <<jsonData, jsonOptions, jsonText, jpc>>

fileVars == <<fileBuffer, filename, parseResult, fpc>>

docVars == <<docArgs, storageFiles, documents, chunkRows, vectorIndex, graphRows, events,
            statusWrites, documentId, docText, docChunks, processedChunks, graphData,
            docError, dpc>>

deleteVars == <<storedDocument, storedChunks, storedVectors, storedGraph, storedFile,
               deleteChunks, deleteResult, xpc>>

vdbVars == <<vdbIndex, vdbPinecone, vdbInitializing, vdbBody, bodyRuns, caller, nullIndexOps>>

chatVars == <<ownerOf, pineconeVectors, chunksTable, chatQuery, vectorResults, resultIndex,
             contextChunks, qpc>>

cleanVars == <<cleanArgs, cleanedOnce, cleanedTwice, ocrDetected, tpc>>

vars == <<chunkVars, pdfVars, entVars, relVars, jsonVars, fileVars, docVars, deleteVars, vdbVars, chatVars, cleanVars>>

(***************************************************************************)
(* Program constants and bounds                                            *)
(***************************************************************************)
MaxTextChars == 1000000     \* chunker.js:18
MinChunkChars == 10         \* chunker.js:32
MaxChunks == 1000           \* chunker.js:46
CHUNK_SIZE == 500           \* constants.js:8, default of createChunks
CHUNK_OVERLAP == 50         \* constants.js:9, default of createChunks

DirectMinChars == 200      \* pdfParser.js:32
ExtractMinChars == 100     \* pdfParser.js:226
OcrMinChars == 100         \* pdfParser.js:52
PageMinChars == 50         \* pdfParser.js:171
ScrapeMinChars == 100      \* pdfParser.js:65

minEntityRelevance == 5    \* memoryGraph.js:8
batchSize == 5             \* memoryGraph.js:106
MaxEntities == 50          \* memoryGraph.js:166

minCooccurrence == 2       \* memoryGraph.js:10
FewEdges == 5              \* memoryGraph.js:335
MinNodes == 2              \* memoryGraph.js:335
MaxTopNodes == 10          \* memoryGraph.js:357
ConfidenceScale == 10      \* memoryGraph.js:396

DefaultMaxDepth == 10      \* textParser.js:159

DefaultMaxFileSize == 52428800   \* fileParser/index.js:267, 50 * 1024 * 1024

MinTextChars == 10         \* documentProcessor.js:115

QueryTopK == 5               \* chatService.js:58, the default topK of processQuery
SearchTopK == 10            \* chatService.js:396, the default topK of searchDocuments

OcrMinLength == 50          \* cleanText.js:69, shorter texts are never taken for OCR output
OcrSampleLength == 500      \* cleanText.js:72
OcrSpaceTenths == 4         \* cleanText.js:77, spaces > chars * 0.4
SpacingSpaceTenths == 6     \* cleanText.js:103, spaceCount > nonSpaceChars * 0.6
SpacingMinChars == 20       \* cleanText.js:103
DuplicateMinLength == 10    \* cleanText.js:319, shorter lines are never dropped as duplicates

MaxRuns == 3                \* runs in a small input text
MaxChunkSize == 12          \* largest small chunkSize tried
MaxRewind == 3              \* how far below 0 `start` is followed when the advance is negative
MaxPages == 2               \* pages a PDF rasterizes to
MaxResponses == 3           \* chunks in a small extraction input
MaxRelChunks == 3           \* chunks scanned for co-occurrence
MaxJsonItems == 2           \* items of a small array or object
MaxJsonNesting == 11        \* arrays nested inside one another
MaxGraphNodes == 2          \* nodes a small graph has
MaxStoredChunks == 2        \* chunk rows of a stored document
MaxCallers == 3             \* concurrent callers of the VectorDB singleton
MaxCalls == 2               \* index operations each caller asks for
MaxDocuments == 3           \* documents ingested by the users of the index
MaxCleanLen == 3            \* characters of a text handed to clean
MaxRepeats == 3             \* repetitions of a phrase in a text handed to detectOcrIssues

(***************************************************************************)
(* Run-length encoded strings                                              *)
(***************************************************************************)
Min2(a, b) == IF a <= b THEN a ELSE b
Max2(a, b) == IF a >= b THEN a ELSE b

RECURSIVE TextLen(_)
TextLen(t) == IF t = <<>> THEN 0 ELSE Head(t).n + TextLen(Tail(t))

\* the runs of t clipped to the offsets [a, b), 0 <= a <= b
RECURSIVE Clip(_, _, _)
Clip(t, a, b) ==
    IF t = <<>> \/ b <= 0 THEN <<>>
    ELSE LET h  == Head(t)
             lo == Max2(a, 0)
             hi == Min2(b, h.n)
             rest == Clip(Tail(t), a - h.n, b - h.n)
         IN IF lo < hi THEN <<[ws |-> h.ws, n |-> hi - lo]>> \o rest ELSE rest

\* String.prototype.substring: arguments clamped to [0, length], swapped when reversed
Substring(t, a, b) ==
    LET len == TextLen(t)
        ca  == Max2(0, Min2(a, len))
        cb  == Max2(0, Min2(b, len))
    IN Clip(t, Min2(ca, cb), Max2(ca, cb))

RECURSIVE TrimStart(_)
TrimStart(t) == IF t = <<>> THEN <<>> ELSE IF Head(t).ws THEN TrimStart(Tail(t)) ELSE t

RECURSIVE TrimEnd(_)
TrimEnd(t) ==
    IF t = <<>> THEN <<>>
    ELSE IF t[Len(t)].ws THEN TrimEnd(SubSeq(t, 1, Len(t) - 1)) ELSE t

\* String.prototype.trim
Trim(t) == TrimEnd(TrimStart(t))

(***************************************************************************)
(* Inputs of createChunks                                                  *)
(***************************************************************************)
\* the variables of the other components
notChunkVars == <<pdfVars, entVars, relVars, jsonVars, fileVars, docVars, deleteVars, vdbVars, chatVars, cleanVars>>

Letters(n) == <<[ws |-> FALSE, n |-> n]>>
Spaces(n)  == <<[ws |-> TRUE, n |-> n]>>

RunLens == {1, MinChunkChars, MinChunkChars + 1}

\* texts of exactly k runs, alternating, the first one whitespace iff w
RECURSIVE Alternating(_, _)
Alternating(k, w) ==
    IF k = 0 THEN {<<>>}
    ELSE {<<[ws |-> w, n |-> n]>> \o t : n \in RunLens, t \in Alternating(k - 1, ~w)}

SmallTexts == UNION {Alternating(k, w) : k \in 0..MaxRuns, w \in BOOLEAN}

SmallChunkSizes == {1} \cup ((MinChunkChars + 1)..MaxChunkSize)

\* chunkSize > overlap >= 0
ValidOverlaps(size) == {0, 1, size - 1} \cap (0..(size - 1))

\* overlap >= chunkSize: the advance is zero or negative
DegenerateInputs ==
    UNION {{[text |-> t, chunkSize |-> s, overlap |-> o] :
                t \in Alternating(0, TRUE) \cup Alternating(1, TRUE) \cup Alternating(1, FALSE),
                o \in {s, s + 1}} :
            s \in SmallChunkSizes}

SmallInputs ==
    UNION {{[text |-> t, chunkSize |-> s, overlap |-> o] : t \in SmallTexts, o \in ValidOverlaps(s)} :
            s \in SmallChunkSizes}

LongInputs ==
    { [text |-> Letters(1200), chunkSize |-> CHUNK_SIZE, overlap |-> CHUNK_OVERLAP],
      [text |-> Letters(930), chunkSize |-> CHUNK_SIZE, overlap |-> CHUNK_OVERLAP],
      [text |-> Letters(MaxChunks + 30), chunkSize |-> MinChunkChars + 1, overlap |-> MinChunkChars],
      [text |-> Letters(MaxTextChars + 1), chunkSize |-> 600000, overlap |-> 100000] }

ChunkInputs == SmallInputs \cup DegenerateInputs \cup LongInputs

(***************************************************************************)
(* Chunker.createChunks, one action per control point                      *)
(***************************************************************************)
\* lines 12-25: the call with its arguments, the empty-text return, the
\* truncation, the loop variables
CreateChunksEnter ==
    /\ cpc = "idle"
    /\ \E in \in ChunkInputs :
          /\ chunkSize' = in.chunkSize
          /\ overlap' = in.overlap
          /\ IF TextLen(in.text) = 0
             THEN /\ cpc' = "done"
                  /\ text' = in.text
             ELSE /\ cpc' = "loop"
                  /\ text' = IF TextLen(in.text) > MaxTextChars
                             THEN Substring(in.text, 0, MaxTextChars)
                             ELSE in.text
    /\ chunks' = <<>>
    /\ start' = 0
    /\ chunkIndex' = 0
    /\ UNCHANGED dropped
    /\ UNCHANGED notChunkVars

\* line 27: the while condition.  A negative advance is followed MaxRewind below 0.
CreateChunksTest ==
    /\ cpc = "loop"
    /\ start >= 0 - MaxRewind
    /\ cpc' = IF start < TextLen(text) THEN "body" ELSE "done"
    /\ UNCHANGED <<text, chunkSize, overlap, chunks, start, chunkIndex, dropped>>
    /\ UNCHANGED notChunkVars

\* line 46: the safety test after the advance
CapReached(cs) == Len(cs) > MaxChunks

\* the advance with the overlap added instead of subtracted
AdvancePastOverlap(s, size, ov) == s + (size + ov)

\* the advance one character short
AdvanceOneShort(s, size, ov) == s + (size - ov) - 1

\* line 43: the advance
Advance(s, size, ov) == s + (size - ov)

\* the index counting every slice, emitted or not
NextIndexEverySlice(i, emitted) == i + 1

\* lines 37-39: the index given to an emitted chunk and the next index
NextIndex(i, emitted) == IF emitted THEN i + 1 ELSE i

\* lines 33-38: the chunk object pushed
Chunk(content, s, e, i) == [content |-> content, start |-> s, end |-> e, index |-> i]

\* lines 29-49: one iteration of the loop body (end, content and the pushed
\* array are bound once, as the constants of the iteration they are)
CreateChunksBody ==
    /\ cpc = "body"
    /\ \E end \in {Min2(start + chunkSize, TextLen(text))} :
       \E content \in {Trim(Substring(text, start, end))} :
       \E emitted \in {TextLen(content) > MinChunkChars} :
       \E pushed \in {IF emitted
                       THEN Append(chunks, Chunk(content, start, end, chunkIndex))
                       ELSE chunks} :
          /\ chunks' = pushed
          /\ chunkIndex' = NextIndex(chunkIndex, emitted)
          /\ dropped' = IF emitted THEN dropped ELSE dropped \cup {<<start, end>>}
          /\ start' = Advance(start, chunkSize, overlap)
          /\ cpc' = IF CapReached(pushed) THEN "done" ELSE "loop"
    /\ UNCHANGED <<text, chunkSize, overlap>>
    /\ UNCHANGED notChunkVars

CreateChunksNext == CreateChunksEnter \/ CreateChunksTest \/ CreateChunksBody

\* the Chunker singleton before a call; the arguments default to 500 and 50
CreateChunksInit ==
    /\ text = <<>>
    /\ chunkSize = CHUNK_SIZE
    /\ overlap = CHUNK_OVERLAP
    /\ chunks = <<>>
    /\ start = 0
    /\ chunkIndex = 0
    /\ cpc = "idle"
    /\ dropped = {}

(***************************************************************************)
(* PDFParser.parse.  JavaScript runs a call without interruption from one  *)
(* await to the next, so a run is either suspended at an await (its pc     *)
(* names the awaited call) or running (its pc names the code it is at),    *)
(* and while one run is running no other run takes a step.                 *)
(***************************************************************************)
Runs == {"runA", "runB"}

AwaitPcs == {"pdfParse", "pdf2json", "mkdir", "bulk", "readFile", "createWorker",
             "addLanguage", "initialize", "recognize", "terminate", "rm"}

RunningPcs == {"ocrStage", "ocrInit", "ocrLoop", "ocrDone", "catch", "finally"}

\* the variables of the other components
notPdfVars == <<chunkVars, entVars, relVars, jsonVars, fileVars, docVars, deleteVars, vdbVars, chatVars, cleanVars>>

\* run p may take a step: no other run is in the middle of synchronous code
Turn(p) == \A q \in Runs \ {p} : run[q].pc \notin RunningPcs

NoResult == [success |-> FALSE, len |-> 0, method |-> "none", quality |-> "none", text |-> "none"]

FreshRun(pc0) ==
    [pc |-> pc0,
     tempImages |-> <<>>,       \* image buffers read back, each named by the run whose page it shows
     nPaths |-> 0,              \* imagePaths.length
     readIdx |-> 0,             \* position of the readFile loop
     i |-> 0,                   \* position of the OCR loop
     successfulPages |-> 0,
     inflight |-> "null",       \* the worker the awaited recognize/terminate was called on
     result |-> NoResult,       \* the value parse returns
     stages |-> <<>>,           \* history: the stages attempted, in order
     yield |-> [text |-> -1, ocr |-> -1, scrape |-> -1],  \* history: characters each finished stage gave
     convertCalls |-> 0, workerCalls |-> 0, recognizeCalls |-> 0,  \* history: collaborator calls
     recognized |-> {}]         \* history: whose pages this run handed to the recognizer

Set(p, r) == run' = [run EXCEPT ![p] = r]

\* lengths of the text a PDF library gives (0 also stands for a rejection)
DirectLens == {0, ExtractMinChars, DirectMinChars, DirectMinChars + 1}

\* line 32 with a reversed comparison
DirectAcceptedReversed(r) == r.success /\ r.len < DirectMinChars

\* line 32: the direct extraction is good enough
DirectAccepted(r) == r.success /\ r.len > DirectMinChars

\* lines 226-236, 243-253: what extractTextPDFs returns for a library's text
ExtractResult(len, method) ==
    IF len > ExtractMinChars
    THEN [success |-> TRUE, len |-> len, method |-> method, quality |-> "text_pdf",
          text |-> "extracted"]
    ELSE NoResult

\* lines 31-38: parse's decision on textResult
AfterDirect(r, textResult) ==
    IF DirectAccepted(textResult)
    THEN [r EXCEPT !.pc = "finally", !.result = textResult, !.yield.text = textResult.len]
    ELSE [r EXCEPT !.pc = "ocrStage", !.yield.text = textResult.len]

\* a throw inside the try block of parse: the OCR stage gave `len` characters
ToCatch(r, len) == [r EXCEPT !.pc = "catch", !.yield.ocr = len]

\* lines 24-31, 225: parse starts and awaits pdfParse(buffer)
ParseEnter(p) ==
    /\ run[p].pc = "idle"
    /\ Turn(p)
    /\ Set(p, [run[p] EXCEPT !.pc = "pdfParse", !.stages = <<"text">>])
    /\ UNCHANGED <<ocrWorker, workerState, tempDirExists, files>>
    /\ UNCHANGED notPdfVars

\* lines 225-242: pdfParse settles (len = 0 stands for a rejection)
PdfParseReturns(p) ==
    /\ run[p].pc = "pdfParse"
    /\ Turn(p)
    /\ \E len \in DirectLens :
          IF len > ExtractMinChars
          THEN Set(p, AfterDirect(run[p], ExtractResult(len, "pdf-parse")))
          ELSE Set(p, [run[p] EXCEPT !.pc = "pdf2json"])
    /\ UNCHANGED <<ocrWorker, workerState, tempDirExists, files>>
    /\ UNCHANGED notPdfVars

\* lines 242-257: parseWithPdf2Json resolves ('' on a parser error)
Pdf2JsonReturns(p) ==
    /\ run[p].pc = "pdf2json"
    /\ Turn(p)
    /\ \E len \in DirectLens :
          Set(p, AfterDirect(run[p], ExtractResult(len, "pdf2json")))
    /\ UNCHANGED <<ocrWorker, workerState, tempDirExists, files>>
    /\ UNCHANGED notPdfVars

\* lines 38-41, 102-105: the OCR stage starts; convertPDFToImages awaits fs.mkdir
OcrStageEnter(p) ==
    /\ run[p].pc = "ocrStage"
    /\ Set(p, [run[p] EXCEPT !.pc = "mkdir", !.stages = Append(@, "ocr"),
                             !.convertCalls = @ + 1])
    /\ UNCHANGED <<ocrWorker, workerState, tempDirExists, files>>
    /\ UNCHANGED notPdfVars

\* lines 105-119, 142-145, 43-45: mkdir settles; on failure convertPDFToImages
\* returns [] and parse throws
MkdirReturns(p) ==
    /\ run[p].pc = "mkdir"
    /\ Turn(p)
    /\ \E ok \in BOOLEAN :
          IF ok
          THEN /\ tempDirExists' = TRUE
               /\ Set(p, [run[p] EXCEPT !.pc = "bulk"])
          ELSE /\ UNCHANGED tempDirExists
               /\ Set(p, ToCatch(run[p], 0))
    /\ UNCHANGED <<ocrWorker, workerState, files>>
    /\ UNCHANGED notPdfVars

\* lines 119-133: convert.bulk settles having written page.1.png .. page.n.png
\* into this.tempDir (n = 0 stands for no image or a rejection)
BulkReturns(p) ==
    /\ run[p].pc = "bulk"
    /\ Turn(p)
    /\ \E n \in 0..MaxPages :
          IF n > 0 /\ tempDirExists
          THEN /\ files' = [k \in 1..MaxPages |-> IF k <= n THEN p ELSE files[k]]
               /\ Set(p, [run[p] EXCEPT !.pc = "readFile", !.nPaths = n, !.readIdx = 1])
          ELSE /\ UNCHANGED files
               /\ Set(p, ToCatch(run[p], 0))
    /\ UNCHANGED <<ocrWorker, workerState, tempDirExists>>
    /\ UNCHANGED notPdfVars

\* lines 131-140, 41-50: one fs.readFile settles; after the last one parse
\* goes on to processImagesWithOCR, or throws when no image was read
ReadFileReturns(p) ==
    /\ run[p].pc = "readFile"
    /\ Turn(p)
    /\ \E k \in {run[p].readIdx} :
       \E buffers \in {IF tempDirExists /\ files[k] # "none"
                       THEN Append(run[p].tempImages, files[k])
                       ELSE run[p].tempImages} :
          IF k < run[p].nPaths
          THEN Set(p, [run[p] EXCEPT !.tempImages = buffers, !.readIdx = k + 1])
          ELSE IF Len(buffers) = 0
          THEN Set(p, ToCatch([run[p] EXCEPT !.tempImages = buffers], 0))
          ELSE Set(p, [run[p] EXCEPT !.tempImages = buffers, !.pc = "ocrInit"])
    /\ UNCHANGED <<ocrWorker, workerState, tempDirExists, files>>
    /\ UNCHANGED notPdfVars

\* lines 152-155: processImagesWithOCR creates a worker unless one is set
OcrInit(p) ==
    /\ run[p].pc = "ocrInit"
    /\ IF ocrWorker = "null"
       THEN Set(p, [run[p] EXCEPT !.pc = "createWorker", !.workerCalls = @ + 1])
       ELSE Set(p, [run[p] EXCEPT !.pc = "ocrLoop", !.i = 1, !.successfulPages = 0])
    /\ UNCHANGED <<ocrWorker, workerState, tempDirExists, files>>
    /\ UNCHANGED notPdfVars

\* lines 155-157, 213-216: createWorker settles; the worker is stored in
\* this.ocrWorker and addLanguage is awaited
CreateWorkerReturns(p) ==
    /\ run[p].pc = "createWorker"
    /\ Turn(p)
    /\ \E ok \in BOOLEAN :
          IF ok
          THEN /\ ocrWorker' = p
               /\ workerState' = [workerState EXCEPT ![p] = "alive"]
               /\ Set(p, [run[p] EXCEPT !.pc = "addLanguage"])
          ELSE /\ UNCHANGED <<ocrWorker, workerState>>
               /\ Set(p, ToCatch(run[p], 0))
    /\ UNCHANGED <<tempDirExists, files>>
    /\ UNCHANGED notPdfVars

\* lines 157-158: addLanguage settles; this.ocrWorker.initialize is called
\* (a TypeError when this.ocrWorker is null by now)
AddLanguageReturns(p) ==
    /\ run[p].pc = "addLanguage"
    /\ Turn(p)
    /\ \E ok \in BOOLEAN :
          IF ok /\ ocrWorker # "null"
          THEN Set(p, [run[p] EXCEPT !.pc = "initialize"])
          ELSE Set(p, ToCatch(run[p], 0))
    /\ UNCHANGED <<ocrWorker, workerState, tempDirExists, files>>
    /\ UNCHANGED notPdfVars

\* lines 158-165: initialize settles
InitializeReturns(p) ==
    /\ run[p].pc = "initialize"
    /\ Turn(p)
    /\ \E ok \in BOOLEAN :
          IF ok
          THEN Set(p, [run[p] EXCEPT !.pc = "ocrLoop", !.i = 1, !.successfulPages = 0])
          ELSE Set(p, ToCatch(run[p], 0))
    /\ UNCHANGED <<ocrWorker, workerState, tempDirExists, files>>
    /\ UNCHANGED notPdfVars

\* lines 165-169, 180-183: the head of the page loop; this.ocrWorker.recognize
\* is a TypeError, caught per page, when this.ocrWorker is null
OcrLoop(p) ==
    /\ run[p].pc = "ocrLoop"
    /\ IF run[p].i > Len(run[p].tempImages)
       THEN Set(p, [run[p] EXCEPT !.pc = "ocrDone"])
       ELSE IF ocrWorker = "null"
       THEN Set(p, [run[p] EXCEPT !.i = @ + 1])
       ELSE Set(p, [run[p] EXCEPT !.pc = "recognize", !.inflight = ocrWorker,
                                  !.recognizeCalls = @ + 1,
                                  !.recognized = @ \cup {run[p].tempImages[run[p].i]}])
    /\ UNCHANGED <<ocrWorker, workerState, tempDirExists, files>>
    /\ UNCHANGED notPdfVars

\* lines 169-183: recognize settles with a page text of `len` trimmed
\* characters, or rejects (always so when its worker has been terminated)
RecognizeReturns(p) ==
    /\ run[p].pc = "recognize"
    /\ Turn(p)
    /\ \E len \in {PageMinChars, PageMinChars + 1}, ok \in BOOLEAN :
          IF ok /\ workerState[run[p].inflight] = "alive" /\ len > PageMinChars
          THEN Set(p, [run[p] EXCEPT !.pc = "ocrLoop", !.i = @ + 1, !.inflight = "null",
                                     !.successfulPages = @ + 1])
          ELSE Set(p, [run[p] EXCEPT !.pc = "ocrLoop", !.i = @ + 1, !.inflight = "null"])
    /\ UNCHANGED <<ocrWorker, workerState, tempDirExists, files>>
    /\ UNCHANGED notPdfVars

\* lines 186-211, 50-57: after the loop; the cleaned text has `len` characters
OcrDone(p) ==
    /\ run[p].pc = "ocrDone"
    /\ IF run[p].successfulPages = 0
       THEN Set(p, ToCatch(run[p], 0))
       ELSE \E len \in {OcrMinChars, OcrMinChars + 1} :
               IF len > OcrMinChars
               THEN Set(p, [run[p] EXCEPT !.pc = "finally", !.yield.ocr = len,
                                          !.result = [success |-> TRUE, len |-> len,
                                                      method |-> "tesseract-ocr",
                                                      quality |-> "ocr_processed",
                                                      text |-> "extracted"]])
               ELSE Set(p, ToCatch(run[p], len))
    /\ UNCHANGED <<ocrWorker, workerState, tempDirExists, files>>
    /\ UNCHANGED notPdfVars

\* the guidance result with success false
GuidanceFailure ==
    [success |-> FALSE, len |-> 0, method |-> "failed", quality |-> "needs_conversion",
     text |-> "getHelpMessage"]

\* lines 82-91: the final fallback, the text of getHelpMessage with
\* text_length 0
GuidanceResult ==
    [success |-> TRUE, len |-> 0, method |-> "failed", quality |-> "needs_conversion",
     text |-> "getHelpMessage"]

\* lines 59-91: the catch block: byte scraping, then the guidance message
Catch(p) ==
    /\ run[p].pc = "catch"
    /\ \E len \in {ScrapeMinChars, ScrapeMinChars + 1} :
          IF len > ScrapeMinChars
          THEN Set(p, [run[p] EXCEPT !.pc = "finally", !.stages = Append(@, "scrape"),
                                     !.yield.scrape = len,
                                     !.result = [success |-> TRUE, len |-> len,
                                                 method |-> "buffer_fallback",
                                                 quality |-> "partial",
                                                 text |-> "extracted"]])
          ELSE Set(p, [run[p] EXCEPT !.pc = "finally",
                                     !.stages = Append(Append(@, "scrape"), "guidance"),
                                     !.yield.scrape = len,
                                     !.result = GuidanceResult])
    /\ UNCHANGED <<ocrWorker, workerState, tempDirExists, files>>
    /\ UNCHANGED notPdfVars

\* lines 93-96, 364-374: the finally block enters cleanupTempFiles
Finally(p) ==
    /\ run[p].pc = "finally"
    /\ IF ocrWorker # "null"
       THEN Set(p, [run[p] EXCEPT !.pc = "terminate", !.inflight = ocrWorker])
       ELSE Set(p, [run[p] EXCEPT !.pc = "rm"])
    /\ UNCHANGED <<ocrWorker, workerState, tempDirExists, files>>
    /\ UNCHANGED notPdfVars

\* lines 368-374, 379-381: terminate settles; on a rejection the outer catch
\* of cleanupTempFiles ends the cleanup
TerminateReturns(p) ==
    /\ run[p].pc = "terminate"
    /\ Turn(p)
    /\ \E ok \in BOOLEAN :
          IF ok
          THEN /\ workerState' = [workerState EXCEPT ![run[p].inflight] = "terminated"]
               /\ ocrWorker' = "null"
               /\ Set(p, [run[p] EXCEPT !.pc = "rm", !.inflight = "null"])
          ELSE /\ UNCHANGED <<workerState, ocrWorker>>
               /\ Set(p, [run[p] EXCEPT !.pc = "returned", !.inflight = "null"])
    /\ UNCHANGED <<tempDirExists, files>>
    /\ UNCHANGED notPdfVars

\* lines 373-377: fs.rm settles; a failure is ignored
RmReturns(p) ==
    /\ run[p].pc = "rm"
    /\ Turn(p)
    /\ \E ok \in BOOLEAN :
          IF ok
          THEN /\ tempDirExists' = FALSE
               /\ files' = [k \in 1..MaxPages |-> "none"]
          ELSE UNCHANGED <<tempDirExists, files>>
    /\ Set(p, [run[p] EXCEPT !.pc = "returned"])
    /\ UNCHANGED <<ocrWorker, workerState>>
    /\ UNCHANGED notPdfVars

ParseNext ==
    \E p \in Runs :
        \/ ParseEnter(p)
        \/ PdfParseReturns(p)
        \/ Pdf2JsonReturns(p)
        \/ OcrStageEnter(p)
        \/ MkdirReturns(p)
        \/ BulkReturns(p)
        \/ ReadFileReturns(p)
        \/ OcrInit(p)
        \/ CreateWorkerReturns(p)
        \/ AddLanguageReturns(p)
        \/ InitializeReturns(p)
        \/ OcrLoop(p)
        \/ RecognizeReturns(p)
        \/ OcrDone(p)
        \/ Catch(p)
        \/ Finally(p)
        \/ TerminateReturns(p)
        \/ RmReturns(p)

\* lines 14-19: the singleton after construction, with the given runs about
\* to call parse
ParseInit(callers) ==
    /\ ocrWorker = "null"
    /\ workerState = [w \in Runs |-> "none"]
    /\ tempDirExists = FALSE
    /\ files = [k \in 1..MaxPages |-> "none"]
    /\ run = [p \in Runs |-> FreshRun(IF p \in callers THEN "idle" ELSE "absent")]

(***************************************************************************)
(* MemoryGraph.extractEntitiesFromChunks.  A name or type is a sequence of *)
(* characters.  A relevance is kept as an integer number of 1/RelScale     *)
(* units, so that the repeated halving of the merge is exact.              *)
(***************************************************************************)
notEntVars == <<chunkVars, pdfVars, relVars, jsonVars, fileVars, docVars, deleteVars, vdbVars, chatVars, cleanVars>>

RelScale == 2 ^ (2 * MaxResponses + 2)

Rel(n) == n * RelScale

Upper == <<"A", "B", "C", "D", "E", "F", "G", "H", "I", "J", "K", "L", "M",
           "N", "O", "P", "Q", "R", "S", "T", "U", "V", "W", "X", "Y", "Z">>

Lower == <<"a", "b", "c", "d", "e", "f", "g", "h", "i", "j", "k", "l", "m",
           "n", "o", "p", "q", "r", "s", "t", "u", "v", "w", "x", "y", "z">>

ToLowerChar(c) ==
    IF \E j \in 1..Len(Upper) : Upper[j] = c
    THEN Lower[CHOOSE j \in 1..Len(Upper) : Upper[j] = c]
    ELSE c

\* String.prototype.toLowerCase
ToLowerCase(str) == [k \in 1..Len(str) |-> ToLowerChar(str[k])]

\* line 125: `${entity.name.toLowerCase()}_${entity.type}`
Key(name, type) == ToLowerCase(name) \o <<"_">> \o type

Obs(name, type, relevance) == [name |-> name, type |-> type, relevance |-> Rel(relevance)]

\* ---- inputs: what extractEntities resolves to for each chunk
NameAlpha == <<"A", "l", "p", "h", "a">>
NameLowerAlpha == <<"a", "l", "p", "h", "a">>
NameUpperAlpha == <<"A", "L", "P", "H", "A">>
NameBeta == <<"B", "e", "t", "a">>
TypeConcept == <<"c", "o", "n", "c", "e", "p", "t">>
TypePerson == <<"p", "e", "r", "s", "o", "n">>
TypeTopic == <<"t", "o", "p", "i", "c">>

Digits == <<"0", "1", "2", "3", "4", "5", "6", "7", "8", "9">>

Numbered(k) == <<"e", Digits[(k \div 10) + 1], Digits[(k % 10) + 1]>>

SmallResponses ==
    { <<>>,
      <<Obs(NameAlpha, TypeConcept, 8)>>,
      <<Obs(NameLowerAlpha, TypeConcept, 6)>>,
      <<Obs(NameLowerAlpha, TypeConcept, 10), Obs(NameBeta, TypePerson, 4)>>,
      <<Obs(NameLowerAlpha, TypePerson, 7), Obs(NameUpperAlpha, TypeConcept, 5)>> }

SmallExtractions == UNION {[1..n -> SmallResponses] : n \in 0..MaxResponses}

\* seven chunks: a batch of five and a batch of two
TwoBatches ==
    << <<Obs(NameAlpha, TypeConcept, 8)>>,
       <<Obs(NameLowerAlpha, TypeConcept, 6)>>,
       <<Obs(NameLowerAlpha, TypeConcept, 10), Obs(NameBeta, TypePerson, 4)>>,
       <<>>,
       <<Obs(NameLowerAlpha, TypePerson, 7), Obs(NameUpperAlpha, TypeConcept, 5)>>,
       <<Obs(NameBeta, TypePerson, 9)>>,
       <<Obs(NameAlpha, TypeConcept, 7), Obs(NameBeta, TypePerson, 5)>> >>

\* more than 50 distinct entities of equal relevance
ManyEntities ==
    << [k \in 1..MaxEntities |-> Obs(Numbered(k), TypeTopic, 9)],
       <<Obs(NameAlpha, TypeConcept, 9)>>,
       <<Obs(NameBeta, TypePerson, 9)>> >>

\* two (name, type) pairs that format to the same key string
SameKeyString ==
    << <<Obs(<<"a", "_", "b">>, <<"c">>, 8)>>,
       <<Obs(<<"a">>, <<"b", "_", "c">>, 6)>> >>

EntInputs == SmallExtractions \cup {TwoBatches, ManyEntities, SameKeyString}

\* ---- the merge, lines 123-148
Has(map, key) == \E k \in 1..Len(map) : map[k].key = key

IndexOf(map, key) == CHOOSE k \in 1..Len(map) : map[k].key = key

SumOnly(a, b) == a + b

\* line 131
Mean(a, b) == (a + b) \div 2

\* lines 135-145
NewEntity(entity, chunkIdx) ==
    [name |-> entity.name,
     type |-> entity.type,
     relevance |-> entity.relevance,
     count |-> 1,
     sources |-> {chunkIdx},
     metadata |-> [first_seen_chunk |-> chunkIdx, last_seen_chunk |-> chunkIdx]]

\* lines 129-132
UpdateEntity(existing, entity, chunkIdx) ==
    [existing EXCEPT !.count = @ + 1,
                     !.relevance = Mean(@, entity.relevance),
                     !.sources = @ \cup {chunkIdx}]

\* line 124
Relevant(entity) == entity.relevance >= Rel(minEntityRelevance)

\* lines 124-147: the body of the forEach callback
MergeEntity(map, entity, chunkIdx) ==
    IF Relevant(entity)
    THEN LET key == Key(entity.name, entity.type)
         IN IF Has(map, key)
            THEN [map EXCEPT ![IndexOf(map, key)].value =
                                 UpdateEntity(@, entity, chunkIdx)]
            ELSE Append(map, [key |-> key, value |-> NewEntity(entity, chunkIdx)])
    ELSE map

\* line 123: entities.forEach.  Len(map) is taken at every step so that TLC
\* computes the map entry by entry instead of nesting the pending merges
RECURSIVE ForEach(_, _, _)
ForEach(map, entities, chunkIdx) ==
    IF Len(map) >= 0 /\ entities # <<>>
    THEN ForEach(MergeEntity(map, Head(entities), chunkIdx), Tail(entities), chunkIdx)
    ELSE map

\* the observations a forEach merges, tagged with their chunk
RECURSIVE Observed(_, _)
Observed(entities, chunkIdx) ==
    IF entities = <<>>
    THEN <<>>
    ELSE (IF Relevant(Head(entities))
          THEN <<[name |-> Head(entities).name, type |-> Head(entities).type,
                  relevance |-> Head(entities).relevance, chunk |-> chunkIdx]>>
          ELSE <<>>) \o Observed(Tail(entities), chunkIdx)

\* line 164: Array.from(allEntitiesMap.values())
Values(map) == [k \in 1..Len(map) |-> map[k].value]

\* line 165: sort((a, b) => b.relevance - a.relevance).  Array.prototype.sort
\* is stable: element k goes behind every element of greater relevance and
\* behind the earlier elements of equal relevance
SortByRelevance(arr) ==
    LET Place(k) == Cardinality({j \in 1..Len(arr) :
                        \/ arr[j].relevance > arr[k].relevance
                        \/ arr[j].relevance = arr[k].relevance /\ j < k}) + 1
    IN [p \in 1..Len(arr) |-> arr[CHOOSE k \in 1..Len(arr) : Place(k) = p]]

\* line 166: slice(0, 50)
Top(arr) == SubSeq(arr, 1, Min2(MaxEntities, Len(arr)))

\* line 108: the chunk positions of the batch that starts at i
Batch(i, n) == {k \in 0..(n - 1) : i <= k /\ k < i + batchSize}

\* lines 101-120: the call runs to the await of Promise.all, having started
\* extractEntities for every chunk of the first batch; with no chunks it
\* returns at once
ExtractEnter ==
    /\ epc = "idle"
    /\ \E in \in EntInputs :
          /\ responses' = in
          /\ IF Len(in) > 0
             THEN /\ pending' = Batch(0, Len(in))
                  /\ epc' = "promiseAll"
             ELSE /\ pending' = {}
                  /\ epc' = "done"
    /\ allEntitiesMap' = <<>>
    /\ batchStart' = 0
    /\ allEntities' = <<>>
    /\ merged' = <<>>
    /\ UNCHANGED notEntVars

\* lines 120-148: the extractEntities call of chunk k settles and the
\* callback merges its entities
ExtractEntitiesReturns(k) ==
    /\ epc = "promiseAll"
    /\ k \in pending
    /\ allEntitiesMap' = ForEach(allEntitiesMap, responses[k + 1], k)
    /\ merged' = merged \o Observed(responses[k + 1], k)
    /\ pending' = pending \ {k}
    /\ UNCHANGED <<responses, batchStart, allEntities, epc>>
    /\ UNCHANGED notEntVars

\* lines 155-180: Promise.all resolves; the call waits before a further
\* batch, and after the last batch sorts, cuts and returns
PromiseAllReturns ==
    /\ epc = "promiseAll"
    /\ pending = {}
    /\ IF batchStart + batchSize < Len(responses)
       THEN /\ epc' = "delay"
            /\ UNCHANGED allEntities
       ELSE /\ epc' = "done"
            /\ allEntities' = Top(SortByRelevance(Values(allEntitiesMap)))
    /\ UNCHANGED <<responses, allEntitiesMap, batchStart, pending, merged>>
    /\ UNCHANGED notEntVars

\* lines 107-120, 159: the delay ends and the next batch is started
DelayReturns ==
    /\ epc = "delay"
    /\ batchStart' = batchStart + batchSize
    /\ pending' = Batch(batchStart + batchSize, Len(responses))
    /\ epc' = "promiseAll"
    /\ UNCHANGED <<responses, allEntitiesMap, allEntities, merged>>
    /\ UNCHANGED notEntVars

ExtractNext ==
    \/ ExtractEnter
    \/ \E k \in 0..(Len(responses) - 1) : ExtractEntitiesReturns(k)
    \/ PromiseAllReturns
    \/ DelayReturns

\* before a call
ExtractInit ==
    /\ responses = <<>>
    /\ allEntitiesMap = <<>>
    /\ batchStart = 0
    /\ pending = {}
    /\ allEntities = <<>>
    /\ epc = "idle"
    /\ merged = <<>>

(***************************************************************************)
(* MemoryGraph.analyzeRelationships.  A chunk content and a node name are  *)
(* sequences of characters.  A weight is kept in units of 1/10, so that a  *)
(* co-occurrence count n is Count(n) and a confidence c stands for c / 10. *)
(***************************************************************************)
notRelVars == <<chunkVars, pdfVars, entVars, jsonVars, fileVars, docVars, deleteVars, vdbVars, chatVars, cleanVars>>

Count(n) == n * ConfidenceScale

\* String.prototype.includes
Includes(str, part) ==
    \E s \in 0..(Len(str) - Len(part)) : SubSeq(str, s + 1, s + Len(part)) = part

\* line 259
Mentions(content, node) == Includes(ToLowerCase(content), ToLowerCase(node.name))

\* lines 254-262: the nodes named in a chunk, in the order of `nodes`
ChunkEntities(content) == SelectSeq(nodes, LAMBDA node : Mentions(content, node))

\* the key also carries the chunk being scanned
EdgeKeyPerChunk(id1, id2) == <<id1, "-", id2, relChunkIndex>>

\* lines 270-271: `${entity1.id}-${entity2.id}`
EdgeKey(id1, id2) == <<id1, "-", id2>>

\* lines 274-287: one pair of entities of a chunk
CountPair(map, entity1, entity2, chunkIdx) ==
    LET edgeKey == EdgeKey(entity1.id, entity2.id)
        reverseKey == EdgeKey(entity2.id, entity1.id)
    IN IF ~ Has(map, edgeKey) /\ ~ Has(map, reverseKey)
       THEN Append(map, [key |-> edgeKey,
                         value |-> [source |-> entity1.id, target |-> entity2.id,
                                    weight |-> 1, chunks |-> <<chunkIdx>>]])
       ELSE LET existingKey == IF Has(map, edgeKey) THEN edgeKey ELSE reverseKey
            IN [map EXCEPT ![IndexOf(map, existingKey)].value =
                               [@ EXCEPT !.weight = @ + 1,
                                         !.chunks = Append(@, chunkIdx)]]

\* lines 265-289: the pairs (i, j), i < j, of chunkEntities from position <<i, j>> on
RECURSIVE CountPairs(_, _, _, _, _)
CountPairs(map, chunkEntities, i, j, chunkIdx) ==
    IF Len(map) < 0 \/ i > Len(chunkEntities)
    THEN map
    ELSE IF j > Len(chunkEntities)
         THEN CountPairs(map, chunkEntities, i + 1, i + 2, chunkIdx)
         ELSE CountPairs(CountPair(map, chunkEntities[i], chunkEntities[j], chunkIdx),
                         chunkEntities, i, j + 1, chunkIdx)

EdgeValidAbove(edge) == edge.weight > minCooccurrence

\* line 294
EdgeValid(edge) == edge.weight >= minCooccurrence

\* the row createGraphEdge inserts and the element pushed to edges
EdgeRow(source, target, weight, ai) ==
    [source |-> source, target |-> target, weight |-> weight, ai |-> ai]

\* line 357: nodes.slice(0, Math.min(10, nodes.length))
TopNodes == SubSeq(nodes, 1, Min2(MaxTopNodes, Len(nodes)))

\* lines 388-389: topNodes.find(n => n.name === name): its position, 0 when absent
Find(name) ==
    IF \E k \in 1..Len(TopNodes) : TopNodes[k].name = name
    THEN CHOOSE k \in 1..Len(TopNodes) :
            /\ TopNodes[k].name = name
            /\ \A m \in 1..(k - 1) : TopNodes[m].name # name
    ELSE 0

\* ---- inputs
NodeA == [id |-> 1, name |-> <<"A">>, type |-> TypeConcept]
NodeB == [id |-> 2, name |-> <<"B">>, type |-> TypeConcept]
NodeC == [id |-> 3, name |-> <<"C">>, type |-> TypePerson]

RelContents ==
    { <<>>,
      <<"a", " ", "b">>,
      <<"B", " ", "A">>,
      <<"b", " ", "c">>,
      <<"x", "c", "a", "b">> }

RelChunkInputs == UNION {[1..n -> RelContents] : n \in 0..MaxRelChunks}

NodeD == [id |-> 4, name |-> <<"D">>, type |-> TypeTopic]

RelNodeInputs == { <<>>, <<NodeA>>, <<NodeA, NodeB, NodeC>>, <<NodeC, NodeB, NodeA>> }

\* four nodes named together in two chunks: six co-occurrence edges
DenseInput ==
    [nodes |-> <<NodeA, NodeB, NodeC, NodeD>>,
     chunks |-> << <<"a", "b", "c", "d">>, <<"D", "C", "B", "A">> >>]

RelInputs ==
    {[nodes |-> ns, chunks |-> cs] : ns \in RelNodeInputs, cs \in RelChunkInputs}
        \cup {DenseInput}

\* what the LLM may answer: relationships [entity1, entity2, confidence]
Proposal(name1, name2, confidence) ==
    [entity1 |-> name1, entity2 |-> name2, confidence |-> confidence]

AiProposals ==
    { <<>>,
      <<Proposal(<<"A">>, <<"C">>, 8)>>,
      <<Proposal(<<"B">>, <<"A">>, 9), Proposal(<<"A">>, <<"A">>, 7)>>,
      <<Proposal(<<"a">>, <<"C">>, 6)>> }

\* ---- actions
\* lines 237-250: the call starts
AnalyzeEnter ==
    /\ rpc = "idle"
    /\ \E in \in RelInputs :
          /\ nodes' = in.nodes
          /\ relChunks' = in.chunks
    /\ cooccurrenceMap' = <<>>
    /\ relChunkIndex' = 0
    /\ validEdges' = <<>>
    /\ edgeIndex' = 0
    /\ edges' = <<>>
    /\ graphEdges' = <<>>
    /\ proposals' = <<>>
    /\ createFailures' = 0
    /\ rpc' = "scan"
    /\ UNCHANGED notRelVars

\* lines 252-290: one chunk of the scan
ScanChunk ==
    /\ rpc = "scan"
    /\ relChunkIndex < Len(relChunks)
    /\ cooccurrenceMap' = CountPairs(cooccurrenceMap,
                                     ChunkEntities(relChunks[relChunkIndex + 1]),
                                     1, 2, relChunkIndex)
    /\ relChunkIndex' = relChunkIndex + 1
    /\ UNCHANGED <<relChunks, nodes, validEdges, edgeIndex, edges, graphEdges, proposals,
                   createFailures, rpc>>
    /\ UNCHANGED notRelVars

\* the semantic pass is called whatever the number of edges and nodes
AfterPersistAlways(es) == "chat"

\* lines 335-341 and 357-380: after the persisting loop, whether the semantic
\* pass is called (it awaits the LLM when it has two nodes)
AfterPersist(es) ==
    IF Len(es) < FewEdges /\ Len(nodes) >= MinNodes THEN "chat" ELSE "done"

\* lines 293-297: the scan is over; the counters are filtered and the first
\* createGraphEdge is awaited
FilterEdges ==
    /\ rpc = "scan"
    /\ relChunkIndex >= Len(relChunks)
    /\ validEdges' = SelectSeq(Values(cooccurrenceMap), EdgeValid)
    /\ edgeIndex' = 1
    /\ rpc' = IF SelectSeq(Values(cooccurrenceMap), EdgeValid) = <<>>
              THEN AfterPersist(edges)
              ELSE "persist"
    /\ UNCHANGED <<relChunks, nodes, cooccurrenceMap, relChunkIndex, edges, graphEdges,
                   proposals, createFailures>>
    /\ UNCHANGED notRelVars

\* lines 297-332: createGraphEdge settles for validEdges[edgeIndex]; a failure
\* is logged and the edge skipped
CreateGraphEdgeReturns ==
    /\ rpc = "persist"
    /\ \E ok \in BOOLEAN :
          \E row \in {EdgeRow(validEdges[edgeIndex].source, validEdges[edgeIndex].target,
                              Count(validEdges[edgeIndex].weight), FALSE)} :
          \E es \in {IF ok THEN Append(edges, row) ELSE edges} :
             /\ edges' = es
             /\ graphEdges' = IF ok THEN Append(graphEdges, row) ELSE graphEdges
             /\ createFailures' = IF ok THEN createFailures ELSE createFailures + 1
             /\ edgeIndex' = edgeIndex + 1
             /\ rpc' = IF edgeIndex < Len(validEdges) THEN "persist" ELSE AfterPersist(es)
    /\ UNCHANGED <<relChunks, nodes, cooccurrenceMap, relChunkIndex, validEdges, proposals>>
    /\ UNCHANGED notRelVars

\* lines 380-385, 424-431: chatCompletion settles; a rejection or an answer
\* that does not parse gives no relationship
ChatCompletionReturns ==
    /\ rpc = "chat"
    /\ \E answer \in AiProposals :
          /\ proposals' = answer
          /\ rpc' = IF answer = <<>> THEN "done" ELSE "semantic"
    /\ edgeIndex' = 1
    /\ UNCHANGED <<relChunks, nodes, cooccurrenceMap, relChunkIndex, validEdges, edges,
                   graphEdges, createFailures>>
    /\ UNCHANGED notRelVars

\* lines 385-420, 338: one proposed relationship: skipped unless both names
\* are found and the nodes differ, else createGraphEdge settles
SemanticRelationship ==
    /\ rpc = "semantic"
    /\ \E rel \in {proposals[edgeIndex]} :
       \E n1 \in {Find(rel.entity1)}, n2 \in {Find(rel.entity2)} :
          IF n1 # 0 /\ n2 # 0 /\ TopNodes[n1].id # TopNodes[n2].id
          THEN \E ok \in BOOLEAN :
               \E row \in {EdgeRow(TopNodes[n1].id, TopNodes[n2].id, rel.confidence, TRUE)} :
                  /\ edges' = IF ok THEN Append(edges, row) ELSE edges
                  /\ graphEdges' = IF ok THEN Append(graphEdges, row) ELSE graphEdges
          ELSE UNCHANGED <<edges, graphEdges>>
    /\ edgeIndex' = edgeIndex + 1
    /\ rpc' = IF edgeIndex < Len(proposals) THEN "semantic" ELSE "done"
    /\ UNCHANGED <<relChunks, nodes, cooccurrenceMap, relChunkIndex, validEdges, proposals,
                   createFailures>>
    /\ UNCHANGED notRelVars

AnalyzeNext ==
    \/ AnalyzeEnter
    \/ ScanChunk
    \/ FilterEdges
    \/ CreateGraphEdgeReturns
    \/ ChatCompletionReturns
    \/ SemanticRelationship

\* before a call
AnalyzeInit ==
    /\ relChunks = <<>>
    /\ nodes = <<>>
    /\ cooccurrenceMap = <<>>
    /\ relChunkIndex = 0
    /\ validEdges = <<>>
    /\ edgeIndex = 0
    /\ edges = <<>>
    /\ graphEdges = <<>>
    /\ proposals = <<>>
    /\ createFailures = 0
    /\ rpc = "idle"

(***************************************************************************)
(* TextParser.jsonToText.  A string is a sequence of characters.  A JSON   *)
(* value is a record: t is its type, s the characters of a string, n a     *)
(* number, b a boolean, items the items of an array or the values of an    *)
(* object, keys the keys of an object in the order of Object.entries.      *)
(***************************************************************************)
notJsonVars == <<chunkVars, pdfVars, entVars, relVars, fileVars, docVars, deleteVars, vdbVars, chatVars, cleanVars>>

JString(s)  == [t |-> "string",  s |-> s,    n |-> 0, b |-> FALSE, items |-> <<>>, keys |-> <<>>]
JNumber(n)  == [t |-> "number",  s |-> <<>>, n |-> n, b |-> FALSE, items |-> <<>>, keys |-> <<>>]
JBoolean(b) == [t |-> "boolean", s |-> <<>>, n |-> 0, b |-> b,     items |-> <<>>, keys |-> <<>>]
JNull       == [t |-> "null",    s |-> <<>>, n |-> 0, b |-> FALSE, items |-> <<>>, keys |-> <<>>]
JArray(items) ==
    [t |-> "array", s |-> <<>>, n |-> 0, b |-> FALSE, items |-> items, keys |-> <<>>]
JObject(keys, items) ==
    [t |-> "object", s |-> <<>>, n |-> 0, b |-> FALSE, items |-> items, keys |-> keys]

\* line 160: '[Deep Structure...]'
DeepStructure ==
    <<"[", "D", "e", "e", "p", " ", "S", "t", "r", "u", "c", "t", "u", "r", "e", ".", ".", ".", "]">>

\* Number.prototype.toString of a natural number
RECURSIVE NumberToString(_)
NumberToString(n) ==
    IF n < 10 THEN <<Digits[n + 1]>>
    ELSE NumberToString(n \div 10) \o <<Digits[(n % 10) + 1]>>

\* Boolean.prototype.toString
BooleanToString(b) ==
    IF b THEN <<"t", "r", "u", "e">> ELSE <<"f", "a", "l", "s", "e">>

\* Array.prototype.join
RECURSIVE Join(_, _)
Join(texts, separator) ==
    IF texts = <<>> THEN <<>>
    ELSE IF Len(texts) = 1 THEN texts[1]
    ELSE texts[1] \o separator \o Join(Tail(texts), separator)

\* the truth value JavaScript gives a number
Truthy(n) == n # 0

\* line 159: `depth > options.maxDepth || 10` is `(depth > options.maxDepth) || 10`;
\* a comparison with undefined is false
DepthTest(depth, options) ==
    IF options.hasMaxDepth /\ depth > options.maxDepth THEN TRUE ELSE Truthy(DefaultMaxDepth)

\* lines 158-179
RECURSIVE jsonToText(_, _, _)
jsonToText(data, options, depth) ==
    IF DepthTest(depth, options) THEN DeepStructure
    ELSE IF data.t = "string" THEN data.s
    ELSE IF data.t = "number" THEN NumberToString(data.n)
    ELSE IF data.t = "boolean" THEN BooleanToString(data.b)
    ELSE IF data.t = "null" THEN <<>>
    ELSE IF data.t = "array"
    THEN Join([k \in 1..Len(data.items) |-> jsonToText(data.items[k], options, depth + 1)],
              <<".", " ">>)
    ELSE Join([k \in 1..Len(data.items) |->
                  data.keys[k] \o <<":", " ">> \o jsonToText(data.items[k], options, depth + 1)],
              <<".", " ">>)

\* ---- inputs: what JSON.parse (line 78) hands to jsonToText
JsonScalars == {JString(<<"h", "i">>), JNumber(42), JBoolean(TRUE), JNull}

SeqsUpTo(S, n) == UNION {[1..k -> S] : k \in 0..n}

JsonKeys == <<<<"i", "d">>, <<"o", "k">>, <<"n">>>>

FlatArrays == {JArray(items) : items \in SeqsUpTo(JsonScalars, MaxJsonItems)}

FlatObjects ==
    {JObject(SubSeq(JsonKeys, 1, Len(items)), items) :
        items \in SeqsUpTo(JsonScalars, Min2(MaxJsonItems, Len(JsonKeys)))}

\* a string inside `levels` arrays
RECURSIVE Nested(_)
Nested(levels) == IF levels = 0 THEN JString(<<"h", "i">>) ELSE JArray(<<Nested(levels - 1)>>)

NestedArrays == {Nested(levels) : levels \in 1..MaxJsonNesting}

NestedObjects == {JObject(<<<<"i", "d">>>>, <<a>>) : a \in FlatArrays}

JsonInputs == JsonScalars \cup FlatArrays \cup FlatObjects \cup NestedArrays \cup NestedObjects

NoOptions == [hasMaxDepth |-> FALSE, maxDepth |-> 0]

JsonOptionInputs == {NoOptions} \cup {[hasMaxDepth |-> TRUE, maxDepth |-> d] : d \in {0, 1, 2}}

\* ---- the call
\* lines 73-81: parseJSON hands the parsed value to jsonToText at depth 0
JsonToTextEnter ==
    /\ jpc = "idle"
    /\ \E data \in JsonInputs, options \in JsonOptionInputs :
          /\ jsonData' = data
          /\ jsonOptions' = options
    /\ jpc' = "called"
    /\ UNCHANGED jsonText
    /\ UNCHANGED notJsonVars

JsonToTextReturns ==
    /\ jpc = "called"
    /\ jsonText' = jsonToText(jsonData, jsonOptions, 0)
    /\ jpc' = "done"
    /\ UNCHANGED <<jsonData, jsonOptions>>
    /\ UNCHANGED notJsonVars

JsonToTextNext == JsonToTextEnter \/ JsonToTextReturns

JsonToTextInit ==
    /\ jsonData = JNull
    /\ jsonOptions = NoOptions
    /\ jsonText = <<>>
    /\ jpc = "idle"

(***************************************************************************)
(* FileParser.parseFile.  A buffer argument is its JavaScript type and its *)
(* length; a filename argument is its type and its characters.  An error   *)
(* is the leading words of its message.                                    *)
(***************************************************************************)
notFileVars == <<chunkVars, pdfVars, entVars, relVars, jsonVars, docVars, deleteVars, vdbVars, chatVars, cleanVars>>

Undefined == [type |-> "undefined", length |-> 0]
Buffer(length) == [type |-> "Buffer", length |-> length]
NotABuffer(length) == [type |-> "string", length |-> length]

NoFilename == [type |-> "undefined", chars |-> <<>>]
Filename(chars) == [type |-> "string", chars |-> chars]

Pdf  == <<"p", "d", "f">>
Txt  == <<"t", "x", "t">>
Md   == <<"m", "d">>
Json == <<"j", "s", "o", "n">>
Csv  == <<"c", "s", "v">>
Xml  == <<"x", "m", "l">>
Html == <<"h", "t", "m", "l">>
Htm  == <<"h", "t", "m">>
Rtf  == <<"r", "t", "f">>
Exe  == <<"e", "x", "e">>

\* index.js:50-55: the keys of this.parsers and the parser under each
parsers == [ext \in {Pdf, Txt, Md, Json} |-> IF ext = Pdf THEN "PDFParser" ELSE "TextParser"]

\* index.js:307
textExtensions == {Txt, Md, Json, Csv, Xml, Html, Htm, Rtf}

\* the position of the last '.' of a string, 0 when it has none
LastDot(chars) ==
    IF \E k \in 1..Len(chars) : chars[k] = "."
    THEN CHOOSE k \in 1..Len(chars) :
            /\ chars[k] = "."
            /\ \A j \in (k + 1)..Len(chars) : chars[j] # "."
    ELSE 0

\* index.js:315-326
getFileExtension(name) ==
    IF name.type # "string" \/ name.chars = <<>> THEN Txt
    ELSE IF LastDot(name.chars) = 0 THEN Txt
    ELSE ToLowerCase(SubSeq(name.chars, LastDot(name.chars) + 1, Len(name.chars)))

\* index.js:335-339: every parser of this.parsers has a parse function
getSupportedTypes == DOMAIN parsers

\* index.js:328-333
isSupportedType(fileExt) == fileExt # <<>> /\ ToLowerCase(fileExt) \in getSupportedTypes

\* index.js:297-313: the parser, "none" for null
getParser(fileExt) ==
    IF fileExt = <<>> THEN "none"
    ELSE IF ToLowerCase(fileExt) \in DOMAIN parsers THEN parsers[ToLowerCase(fileExt)]
    ELSE IF ToLowerCase(fileExt) \in textExtensions THEN parsers[Txt]
    ELSE "none"

\* index.js:255-292: the error, "none" when valid
validateFile(buffer, name) ==
    IF buffer.type # "Buffer" THEN "Invalid file buffer"
    ELSE IF buffer.length = 0 THEN "File buffer is empty"
    ELSE IF buffer.length > DefaultMaxFileSize THEN "File too large"
    ELSE IF getFileExtension(name) = <<>> THEN "File has no extension"
    ELSE IF ~isSupportedType(getFileExtension(name)) THEN "Unsupported file type"
    ELSE "none"

\* index.js:72-94: the error thrown before a parser is called, "none" when
\* the call reaches parser.parse
Rejection(buffer, name) ==
    IF buffer.type # "Buffer" THEN "Invalid file buffer"
    ELSE IF name.type # "string" \/ name.chars = <<>> THEN "Invalid filename"
    ELSE IF validateFile(buffer, name) # "none" THEN validateFile(buffer, name)
    ELSE IF getParser(getFileExtension(name)) = "none" THEN "Unsupported file type"
    ELSE "none"

\* textParser.js:335-337 and 25-33: the strategy TextParser.parse takes
TextStrategy(name) ==
    LET lower == ToLowerCase(name.chars)
        last  == SubSeq(lower, LastDot(lower) + 1, Len(lower))
        ext   == IF last = <<>> THEN Txt ELSE last
    IN IF ext = Json THEN "json" ELSE IF ext = Md THEN "markdown" ELSE "plain"

\* index.js:96-110: the strategy a call that reaches parser.parse takes
Strategy(name) ==
    IF getFileExtension(name) = Pdf THEN "pdf" ELSE TextStrategy(name)

\* index.js:176-189: the object returned from the catch
Failure(error) == [success |-> FALSE, error |-> error, strategy |-> "none", text |-> <<>>]

\* index.js:112-118 and 165-174: the object returned after parser.parse
\* resolved to `parsed`, its text as cleaner.clean leaves it
Parsed(parsed, strategy) ==
    [success |-> parsed.success, error |-> IF parsed.success THEN "none" ELSE "Parser failed",
     strategy |-> strategy, text |-> parsed.text]

\* ---- inputs
FileBufferInputs ==
    {Undefined, NotABuffer(2048), Buffer(0), Buffer(1), Buffer(2048),
     Buffer(DefaultMaxFileSize), Buffer(DefaultMaxFileSize + 1)}

Named(ext) == Filename(<<"a", ".">> \o ext)

FilenameInputs ==
    {NoFilename, Filename(<<>>), Filename(<<"a">>), Filename(<<"a", ".">>),
     Filename(<<"a", ".", "b", ".", "C", "S", "V">>), Named(<<"T", "x", "t">>)}
        \cup {Named(ext) : ext \in {Pdf, Txt, Md, Json, Csv, Xml, Html, Htm, Rtf, Exe}}

\* the texts a parser extracts, after cleaning
ParsedTexts ==
    {<<>>, Letters(5), Spaces(20), Letters(10), Spaces(3) \o Letters(9) \o Spaces(3),
     Letters(11), Letters(600), Letters(1200)}

\* words of the given lengths, separated by single spaces
Words(lens) ==
    [k \in 1..(2 * Len(lens) - 1) |->
        IF k % 2 = 1 THEN [ws |-> FALSE, n |-> lens[(k + 1) \div 2]]
        ELSE [ws |-> TRUE, n |-> 1]]

\* pdfParser.js:346-359 and cleanText.js:12-59: the text of getHelpMessage
\* as cleaner.clean leaves it, 384 characters on one line: the six words of
\* "This PDF could not be processed." and the 52 words after them, which are
\* taken as one run of 351 characters (the text is shorter than CHUNK_SIZE,
\* so no step looks for a space inside it)
HelpMessageCleaned == Words(<<4, 3, 5, 3, 2, 10, 351>>)

\* pdfParser.js:25-97: what parser.parse resolves to when PDFParser.parse
\* returns r: the guidance message, or an extracted text of r.len characters
PdfOutcome(r) ==
    [threw |-> FALSE, success |-> r.success,
     text |-> IF r.text = "getHelpMessage" THEN HelpMessageCleaned ELSE Letters(r.len)]

\* what parser.parse does: parsePlainText and parseMarkdown return success,
\* parseJSON throws when JSON.parse does, PDFParser.parse returns a text it
\* extracted or its guidance message
ParserOutcomes(strategy) ==
    {[threw |-> FALSE, success |-> TRUE, text |-> t] : t \in ParsedTexts}
        \cup (IF strategy = "json"
              THEN {[threw |-> TRUE, success |-> FALSE, text |-> <<>>]} ELSE {})
        \cup (IF strategy = "pdf" THEN {PdfOutcome(GuidanceResult)} ELSE {})

\* index.js:68-190 as one value: what parseFile resolves to when its parser
\* resolves to `parsed`
parseFile(buffer, name, parsed) ==
    IF Rejection(buffer, name) # "none" THEN Failure(Rejection(buffer, name))
    ELSE IF parsed.threw THEN Failure("Text parsing failed")
    ELSE Parsed(parsed, Strategy(name))

\* ---- the call
\* index.js:68-110: up to the await of parser.parse, or the return from the catch
ParseFileCall ==
    /\ fpc = "idle"
    /\ \E buffer \in FileBufferInputs, name \in FilenameInputs :
          /\ fileBuffer' = buffer
          /\ filename' = name
          /\ IF Rejection(buffer, name) # "none"
             THEN /\ parseResult' = Failure(Rejection(buffer, name))
                  /\ fpc' = "done"
             ELSE /\ parseResult' = parseResult
                  /\ fpc' = "parse"
    /\ UNCHANGED notFileVars

\* index.js:96-174: parser.parse settles
ParserParseReturns ==
    /\ fpc = "parse"
    /\ \E parsed \in ParserOutcomes(Strategy(filename)) :
          parseResult' = parseFile(fileBuffer, filename, parsed)
    /\ fpc' = "done"
    /\ UNCHANGED <<fileBuffer, filename>>
    /\ UNCHANGED notFileVars

ParseFileNext == ParseFileCall \/ ParserParseReturns

ParseFileInit ==
    /\ fileBuffer = Undefined
    /\ filename = NoFilename
    /\ parseResult = Failure("none")
    /\ fpc = "idle"

(***************************************************************************)
(* DocumentProcessor.processDocument, and the background run of the upload *)
(* route around it.  The run is suspended at an await (dpc names the       *)
(* awaited call) and each action is the code from one await to the next.   *)
(* A collaborator call either succeeds or fails.                           *)
(***************************************************************************)
notDocVars == <<chunkVars, pdfVars, entVars, relVars, jsonVars, fileVars, deleteVars, vdbVars, chatVars, cleanVars>>

\* chunker.js:27-50 as a value: the loop of createChunks
RECURSIVE ChunkLoop(_, _, _, _, _, _)
ChunkLoop(t, size, ov, cs, s, i) ==
    IF Len(cs) >= 0 /\ s < TextLen(t)
    THEN LET end     == Min2(s + size, TextLen(t))
             content == Trim(Substring(t, s, end))
             emitted == TextLen(content) > MinChunkChars
             pushed  == IF emitted THEN Append(cs, Chunk(content, s, end, i)) ELSE cs
         IN IF CapReached(pushed) THEN pushed
            ELSE ChunkLoop(t, size, ov, pushed, Advance(s, size, ov), NextIndex(i, emitted))
    ELSE cs

\* chunker.js:12-53 as a value
createChunks(t, size, ov) ==
    IF TextLen(t) = 0 THEN <<>>
    ELSE ChunkLoop(IF TextLen(t) > MaxTextChars THEN Substring(t, 0, MaxTextChars) ELSE t,
                   size, ov, <<>>, 0, 0)

\* constants.js:34-38
STATUS == [PROCESSING |-> "processing", COMPLETED |-> "completed", FAILED |-> "failed"]

NoDocument ==
    [exists |-> FALSE, status |-> "none", error_message |-> "none", num_chunks |-> 0]

\* upload.js:23-29 and documentProcessor.js:90-96: the row createDocument inserts
NewDocument ==
    [exists |-> TRUE, status |-> STATUS.PROCESSING, error_message |-> "none", num_chunks |-> 0]

\* every vector gets the same id
VectorIdSame(k) == <<"vec", 0>>

\* vectorDB.js:94: the id of the k-th vector upserted, built from the clock
\* and a random number
VectorId(k) == <<"vec", k>>

\* supabaseService.js:251-264: the row with this vector_id, "error" when
\* there is none or more than one (.single())
getChunkByVectorId(vectorId) ==
    LET rows == {k \in 1..Len(chunkRows) : chunkRows[k].vector_id = vectorId}
    IN IF Cardinality(rows) = 1 THEN chunkRows[CHOOSE k \in rows : TRUE] ELSE "error"

NoGraph == [nodes |-> 0, edges |-> 0, error |-> "none", failure |-> "none"]

\* buildGraphFromChunks lets the error of the stage go to its caller
BuildGraphRethrows(stage) == [threw |-> TRUE, graph |-> NoGraph]

\* memoryGraph.js:71-79: the catch of buildGraphFromChunks
BuildGraphCatch(stage) ==
    [threw |-> FALSE,
     graph |-> [nodes |-> 0, edges |-> 0, error |-> "Graph stage threw", failure |-> stage]]

\* memoryGraph.js:23, 32, 43: the early returns of an empty graph
EmptyGraph(stage) ==
    [threw |-> FALSE, graph |-> [nodes |-> 0, edges |-> 0, error |-> "none", failure |-> stage]]

\* memoryGraph.js:53-69
BuiltGraph(n, m, stage) ==
    [threw |-> FALSE, graph |-> [nodes |-> n, edges |-> m, error |-> "none", failure |-> stage]]

\* ---- inputs
DocBufferInputs ==
    {Undefined, NotABuffer(2048), Buffer(0), Buffer(2048), Buffer(DefaultMaxFileSize + 1)}

DocFilenameInputs == {NoFilename, Named(Txt), Named(Pdf), Named(Csv), Named(Exe)}

\* existing: the upload route created the row and passes its id;
\* io: initIO has been called; gemini: the embeddings API answers
DocInputs ==
    [fileBuffer : DocBufferInputs, filename : DocFilenameInputs,
     existing : BOOLEAN, io : BOOLEAN, gemini : BOOLEAN]

\* ---- the catch of processDocument, lines 289-326, up to its first await
ProcessDocumentCatch(args, id, error) ==
    /\ docError' = error
    /\ events' = IF args.io /\ id # "none" THEN events \cup {"document-error"} ELSE events
    /\ dpc' = "documentFailed"

\* upload.js:23-54 and documentProcessor.js:52-65: the route inserts the row
\* and starts the run; processDocument reads fileBuffer.length and awaits uploadFile
ProcessDocumentCall ==
    /\ dpc = "idle"
    /\ \E args \in DocInputs :
          /\ docArgs' = args
          /\ documents' = IF args.existing THEN NewDocument ELSE NoDocument
          /\ documentId' = IF args.existing THEN "doc" ELSE "none"
          /\ IF args.fileBuffer.type = "undefined"
             THEN ProcessDocumentCatch(args, IF args.existing THEN "doc" ELSE "none", "Cannot read properties")
             ELSE /\ dpc' = "uploadFile"
                  /\ UNCHANGED <<docError, events>>
    /\ UNCHANGED <<storageFiles, chunkRows, vectorIndex, graphRows, statusWrites, docText,
                   docChunks, processedChunks, graphData>>
    /\ UNCHANGED notDocVars

\* lines 65-68
UploadFileReturns ==
    /\ dpc = "uploadFile"
    /\ \/ /\ storageFiles' = storageFiles + 1
          /\ dpc' = IF documentId # "none" THEN "getDocument" ELSE "createDocument"
          /\ UNCHANGED <<docError, events>>
       \/ /\ ProcessDocumentCatch(docArgs, documentId, "File upload failed")
          /\ UNCHANGED storageFiles
    /\ UNCHANGED <<docArgs, documents, chunkRows, vectorIndex, graphRows, statusWrites,
                   documentId, docText, docChunks, processedChunks, graphData>>
    /\ UNCHANGED notDocVars

\* lines 68-79
GetDocumentReturns ==
    /\ dpc = "getDocument"
    /\ \/ /\ dpc' = "updateDocument"
          /\ UNCHANGED <<docError, events>>
       \/ ProcessDocumentCatch(docArgs, documentId, "Get document failed")
    /\ UNCHANGED <<docArgs, storageFiles, documents, chunkRows, vectorIndex, graphRows,
                   statusWrites, documentId, docText, docChunks, processedChunks, graphData>>
    /\ UNCHANGED notDocVars

\* lines 79-83: the file_url update of the existing row
UpdateDocumentReturns ==
    /\ dpc = "updateDocument"
    /\ \/ /\ dpc' = "parseFile"
          /\ UNCHANGED <<docError, events>>
       \/ ProcessDocumentCatch(docArgs, documentId, "Update document failed")
    /\ UNCHANGED <<docArgs, storageFiles, documents, chunkRows, vectorIndex, graphRows,
                   statusWrites, documentId, docText, docChunks, processedChunks, graphData>>
    /\ UNCHANGED notDocVars

\* lines 84-98
CreateDocumentReturns ==
    /\ dpc = "createDocument"
    /\ \/ /\ documents' = NewDocument
          /\ statusWrites' = Append(statusWrites, STATUS.PROCESSING)
          /\ documentId' = "doc"
          /\ dpc' = "parseFile"
          /\ UNCHANGED <<docError, events>>
       \/ /\ ProcessDocumentCatch(docArgs, documentId, "Create document failed")
          /\ UNCHANGED <<documents, statusWrites, documentId>>
    /\ UNCHANGED <<docArgs, storageFiles, chunkRows, vectorIndex, graphRows, docText,
                   docChunks, processedChunks, graphData>>
    /\ UNCHANGED notDocVars

\* lines 106-171: parseFile resolves; the text and chunk checks; the batch
\* of embeddings is requested
DocParseFileSettles(parsed) ==
    /\ \E result \in {parseFile(docArgs.fileBuffer, docArgs.filename, parsed)} :
       \E cs \in {createChunks(result.text, CHUNK_SIZE, CHUNK_OVERLAP)} :
          IF ~result.success
          THEN /\ ProcessDocumentCatch(docArgs, documentId, "File parsing failed")
               /\ UNCHANGED <<docText, docChunks>>
          ELSE /\ docText' = result.text
               /\ IF TextLen(Trim(result.text)) < MinTextChars
                  THEN /\ ProcessDocumentCatch(docArgs, documentId, "Extracted text is too short or empty")
                       /\ UNCHANGED docChunks
                  ELSE /\ docChunks' = cs
                       /\ IF Len(cs) = 0
                          THEN ProcessDocumentCatch(docArgs, documentId, "No chunks created from text")
                          ELSE /\ dpc' = "generateEmbeddingsBatch"
                               /\ UNCHANGED <<docError, events>>
    /\ UNCHANGED <<docArgs, storageFiles, documents, chunkRows, vectorIndex, graphRows,
                   statusWrites, documentId, processedChunks, graphData>>

DocParseFileReturns ==
    /\ dpc = "parseFile"
    /\ \E parsed \in ParserOutcomes(Strategy(docArgs.filename)) : DocParseFileSettles(parsed)
    /\ UNCHANGED notDocVars

\* the run awaits PDFParser.parse: fileParser.parseFile found nothing to
\* reject and the file is a PDF (index.js:72-103)
PdfAwaited ==
    /\ dpc = "parseFile"
    /\ Rejection(docArgs.fileBuffer, docArgs.filename) = "none"
    /\ Strategy(docArgs.filename) = "pdf"

\* index.js:99-174 and documentProcessor.js:106-139: parseFile goes on with
\* the object PDFParser.parse returned
DocPdfParseReturns ==
    /\ PdfAwaited
    /\ run["runA"].pc = "returned"
    /\ DocParseFileSettles(PdfOutcome(run["runA"].result))
    /\ UNCHANGED notDocVars

\* line 171 and aiService.js:37-160: every generateEmbedding call resolves,
\* to the API's vector or, when the API fails, to a random vector of the
\* same dimension; the batch has one valid vector per chunk either way
GenerateEmbeddingsBatchReturns ==
    /\ dpc = "generateEmbeddingsBatch"
    /\ dpc' = "upsertVector"
    /\ UNCHANGED <<docArgs, storageFiles, documents, chunkRows, vectorIndex, graphRows, events,
                   statusWrites, documentId, docText, docChunks, processedChunks, graphData,
                   docError>>
    /\ UNCHANGED notDocVars

\* line 192 and vectorDB.js:91-107
UpsertVectorReturns ==
    /\ dpc = "upsertVector"
    /\ \/ /\ vectorIndex' = vectorIndex \cup {VectorId(Cardinality(vectorIndex) + 1)}
          /\ dpc' = "createChunk"
          /\ UNCHANGED <<docError, events>>
       \/ /\ ProcessDocumentCatch(docArgs, documentId, "Upsert failed")
          /\ UNCHANGED vectorIndex
    /\ UNCHANGED <<docArgs, storageFiles, documents, chunkRows, graphRows, statusWrites,
                   documentId, docText, docChunks, processedChunks, graphData>>
    /\ UNCHANGED notDocVars

\* lines 195-219: the row of chunk i is inserted with the id upsertVector
\* returned; the loop goes on or buildGraphFromChunks is called
CreateChunkReturns ==
    /\ dpc = "createChunk"
    /\ \E i \in {Len(processedChunks)} :
       \E vectorId \in {VectorId(Cardinality(vectorIndex))} :
          \/ /\ chunkRows' = Append(chunkRows, [chunk_index |-> i, vector_id |-> vectorId,
                                                 content |-> docChunks[i + 1].content])
             /\ processedChunks' = Append(processedChunks, vectorId)
             /\ dpc' = IF i + 1 < Len(docChunks) THEN "upsertVector" ELSE "extractEntities"
             /\ UNCHANGED <<docError, events>>
          \/ /\ ProcessDocumentCatch(docArgs, documentId, "Create chunk failed")
             /\ UNCHANGED <<chunkRows, processedChunks>>
    /\ UNCHANGED <<docArgs, storageFiles, documents, vectorIndex, graphRows, statusWrites,
                   documentId, docText, docChunks, graphData>>
    /\ UNCHANGED notDocVars

\* line 219 and memoryGraph.js:17-80: buildGraphFromChunks settles to
\* `settled`; processDocument goes on to the completed update, or to its
\* catch if the call threw
BuildGraphSettles(settled) ==
    IF settled.threw
    THEN /\ ProcessDocumentCatch(docArgs, documentId, "Graph building failed")
         /\ UNCHANGED graphData
    ELSE /\ graphData' = settled.graph
         /\ dpc' = "updateCompleted"
         /\ UNCHANGED <<docError, events>>

\* memoryGraph.js:28-33: extractEntitiesFromChunks resolves to entities, to
\* none (its own catch returns []), or rejects
BuildGraphExtractReturns ==
    /\ dpc = "extractEntities"
    /\ \/ /\ dpc' = "createGraphNodes"
          /\ UNCHANGED <<graphData, docError, events>>
       \/ BuildGraphSettles(EmptyGraph("extraction"))
       \/ BuildGraphSettles(BuildGraphCatch("extraction"))
    /\ UNCHANGED <<docArgs, storageFiles, documents, chunkRows, vectorIndex, graphRows,
                   statusWrites, documentId, docText, docChunks, processedChunks>>
    /\ UNCHANGED notDocVars

\* memoryGraph.js:39-44: createGraphNodes resolves to the nodes it inserted,
\* to none, or rejects
BuildGraphNodesReturns ==
    /\ dpc = "createGraphNodes"
    /\ \/ \E n \in 1..MaxGraphNodes :
             /\ graphRows' = [graphRows EXCEPT !.nodes = n]
             /\ graphData' = [graphData EXCEPT !.nodes = n]
             /\ dpc' = "analyzeRelationships"
             /\ UNCHANGED <<docError, events>>
       \/ /\ BuildGraphSettles(EmptyGraph("nodes"))
          /\ UNCHANGED graphRows
       \/ /\ BuildGraphSettles(BuildGraphCatch("nodes"))
          /\ UNCHANGED graphRows
    /\ UNCHANGED <<docArgs, storageFiles, documents, chunkRows, vectorIndex, statusWrites,
                   documentId, docText, docChunks, processedChunks>>
    /\ UNCHANGED notDocVars

\* memoryGraph.js:50-69: analyzeRelationships resolves to the edges it
\* inserted (fewer when createGraphEdge or the LLM call failed), or rejects
BuildGraphRelationshipsReturns ==
    /\ dpc = "analyzeRelationships"
    /\ \/ \E m \in 0..(graphData.nodes - 1), stage \in {"none", "edges", "llm"} :
             /\ graphRows' = [graphRows EXCEPT !.edges = m]
             /\ BuildGraphSettles(BuiltGraph(graphData.nodes, m, stage))
       \/ /\ BuildGraphSettles(BuildGraphCatch("edges"))
          /\ UNCHANGED graphRows
    /\ UNCHANGED <<docArgs, storageFiles, documents, chunkRows, vectorIndex, statusWrites,
                   documentId, docText, docChunks, processedChunks>>
    /\ UNCHANGED notDocVars

\* lines 230-287: the completed update, the completion event, the return
UpdateCompletedReturns ==
    /\ dpc = "updateCompleted"
    /\ \/ /\ documents' = [documents EXCEPT !.status = STATUS.COMPLETED,
                                            !.num_chunks = Len(processedChunks)]
          /\ statusWrites' = Append(statusWrites, STATUS.COMPLETED)
          /\ events' = IF docArgs.io THEN events \cup {"document-completed"} ELSE events
          /\ dpc' = "returned"
          /\ UNCHANGED docError
       \/ /\ ProcessDocumentCatch(docArgs, documentId, "Update document failed")
          /\ UNCHANGED <<documents, statusWrites>>
    /\ UNCHANGED <<docArgs, storageFiles, chunkRows, vectorIndex, graphRows, documentId,
                   docText, docChunks, processedChunks, graphData>>
    /\ UNCHANGED notDocVars

\* lines 306-316 and notificationService.js: documentFailed resolves (it
\* catches its own errors)
DocumentFailedReturns ==
    /\ dpc = "documentFailed"
    /\ dpc' = IF documentId # "none" THEN "updateFailed" ELSE "thrown"
    /\ UNCHANGED <<docArgs, storageFiles, documents, chunkRows, vectorIndex, graphRows, events,
                   statusWrites, documentId, docText, docChunks, processedChunks, graphData,
                   docError>>
    /\ UNCHANGED notDocVars

\* lines 313-325: the failed update, its error logged and dropped; the
\* error of the run is thrown again
UpdateFailedReturns ==
    /\ dpc = "updateFailed"
    /\ \/ /\ documents' = [documents EXCEPT !.status = STATUS.FAILED,
                                            !.error_message = docError]
          /\ statusWrites' = Append(statusWrites, STATUS.FAILED)
       \/ UNCHANGED <<documents, statusWrites>>
    /\ dpc' = "thrown"
    /\ UNCHANGED <<docArgs, storageFiles, chunkRows, vectorIndex, graphRows, events,
                   documentId, docText, docChunks, processedChunks, graphData, docError>>
    /\ UNCHANGED notDocVars

\* upload.js:45-60: after a successful run the route updates the counts
FinalUpdateStarts ==
    /\ dpc = "returned"
    /\ docArgs.existing
    /\ dpc' = "finalUpdate"
    /\ UNCHANGED <<docArgs, storageFiles, documents, chunkRows, vectorIndex, graphRows, events,
                   statusWrites, documentId, docText, docChunks, processedChunks, graphData,
                   docError>>
    /\ UNCHANGED notDocVars

\* upload.js:60-71
FinalUpdateReturns ==
    /\ dpc = "finalUpdate"
    /\ \/ /\ documents' = [documents EXCEPT !.num_chunks = Len(processedChunks)]
          /\ dpc' = "finished"
          /\ UNCHANGED docError
       \/ /\ docError' = "Update document failed"
          /\ dpc' = "routeUpdateFailed"
          /\ UNCHANGED documents
    /\ UNCHANGED <<docArgs, storageFiles, chunkRows, vectorIndex, graphRows, events,
                   statusWrites, documentId, docText, docChunks, processedChunks, graphData>>
    /\ UNCHANGED notDocVars

\* upload.js:71-76: the route catches the error processDocument threw
RouteCatches ==
    /\ dpc = "thrown"
    /\ docArgs.existing
    /\ dpc' = "routeUpdateFailed"
    /\ UNCHANGED <<docArgs, storageFiles, documents, chunkRows, vectorIndex, graphRows, events,
                   statusWrites, documentId, docText, docChunks, processedChunks, graphData,
                   docError>>
    /\ UNCHANGED notDocVars

\* upload.js:76-84: the route's failed update, its error logged and dropped
RouteUpdateFailedReturns ==
    /\ dpc = "routeUpdateFailed"
    /\ \/ /\ documents' = [documents EXCEPT !.status = "failed", !.error_message = docError]
          /\ statusWrites' = Append(statusWrites, "failed")
       \/ UNCHANGED <<documents, statusWrites>>
    /\ dpc' = "finished"
    /\ UNCHANGED <<docArgs, storageFiles, chunkRows, vectorIndex, graphRows, events,
                   documentId, docText, docChunks, processedChunks, graphData, docError>>
    /\ UNCHANGED notDocVars

ProcessDocumentNext ==
    \/ ProcessDocumentCall
    \/ UploadFileReturns
    \/ GetDocumentReturns
    \/ UpdateDocumentReturns
    \/ CreateDocumentReturns
    \/ DocParseFileReturns
    \/ GenerateEmbeddingsBatchReturns
    \/ UpsertVectorReturns
    \/ CreateChunkReturns
    \/ BuildGraphExtractReturns
    \/ BuildGraphNodesReturns
    \/ BuildGraphRelationshipsReturns
    \/ UpdateCompletedReturns
    \/ DocumentFailedReturns
    \/ UpdateFailedReturns
    \/ FinalUpdateStarts
    \/ FinalUpdateReturns
    \/ RouteCatches
    \/ RouteUpdateFailedReturns

\* before a run: nothing of the document is stored
ProcessDocumentInit ==
    /\ docArgs = [fileBuffer |-> Undefined, filename |-> NoFilename,
                  existing |-> FALSE, io |-> FALSE, gemini |-> FALSE]
    /\ storageFiles = 0
    /\ documents = NoDocument
    /\ chunkRows = <<>>
    /\ vectorIndex = {}
    /\ graphRows = [nodes |-> 0, edges |-> 0]
    /\ events = {}
    /\ statusWrites = <<>>
    /\ documentId = "none"
    /\ docText = <<>>
    /\ docChunks = <<>>
    /\ processedChunks = <<>>
    /\ graphData = NoGraph
    /\ docError = "none"
    /\ dpc = "idle"

(***************************************************************************)
(* DocumentProcessor.deleteDocument with MemoryGraph.deleteDocumentGraph   *)
(* and the SupabaseService calls under it.  xpc names the awaited call.    *)
(* A Supabase query resolves to a result that carries an error when it     *)
(* failed; the code decides whether the error is looked at.                *)
(***************************************************************************)
notDeleteVars == <<chunkVars, pdfVars, entVars, relVars, jsonVars, fileVars, docVars, vdbVars, chatVars, cleanVars>>

NoStoredDocument == [exists |-> FALSE, owned |-> FALSE, file_url |-> FALSE]

\* the artifacts an earlier ingestion left for the document
StoredInputs ==
    [chunks : 0..MaxStoredChunks, nodes : 0..MaxGraphNodes, edges : 0..(MaxGraphNodes - 1),
     owned : BOOLEAN, file_url : BOOLEAN]

\* documentProcessor.js:537-540: the catch throws the error again
DeleteDocumentThrows ==
    /\ deleteResult' = "thrown"
    /\ xpc' = "done"

\* lines 496-501: the call, on the artifacts of some earlier ingestion
DeleteDocumentCall ==
    /\ xpc = "idle"
    /\ \E in \in StoredInputs :
          /\ storedDocument' = [exists |-> TRUE, owned |-> in.owned, file_url |-> in.file_url]
          /\ storedChunks' = [k \in 1..in.chunks |-> VectorId(k)]
          /\ storedVectors' = {VectorId(k) : k \in 1..in.chunks}
          /\ storedGraph' = [nodes |-> in.nodes, edges |-> IF in.nodes < MinNodes THEN 0 ELSE in.edges]
          /\ storedFile' = in.file_url
    /\ xpc' = "getDocument"
    /\ UNCHANGED <<deleteChunks, deleteResult>>
    /\ UNCHANGED notDeleteVars

\* lines 501-508
DeleteGetDocumentReturns ==
    /\ xpc = "getDocument"
    /\ \/ /\ storedDocument.owned
          /\ xpc' = "getDocumentChunks"
          /\ UNCHANGED deleteResult
       \/ /\ ~storedDocument.owned
          /\ DeleteDocumentThrows
       \/ DeleteDocumentThrows
    /\ UNCHANGED <<storedDocument, storedChunks, storedVectors, storedGraph, storedFile,
                   deleteChunks>>
    /\ UNCHANGED notDeleteVars

\* lines 516-521: after the vectors, the file if the row has a file_url,
\* then the graph
AfterVectors == IF storedDocument.file_url THEN "deleteFile" ELSE "selectNodes"

\* lines 508-511
GetDocumentChunksReturns ==
    /\ xpc = "getDocumentChunks"
    /\ \/ /\ deleteChunks' = storedChunks
          /\ xpc' = IF storedChunks # <<>> THEN "deleteVector" ELSE AfterVectors
          /\ UNCHANGED deleteResult
       \/ /\ DeleteDocumentThrows
          /\ UNCHANGED deleteChunks
    /\ UNCHANGED <<storedDocument, storedChunks, storedVectors, storedGraph, storedFile>>
    /\ UNCHANGED notDeleteVars

\* lines 509-513 and vectorDB.js:142-145
DeleteVectorReturns ==
    /\ xpc = "deleteVector"
    /\ \/ /\ storedVectors' = storedVectors \ {Head(deleteChunks)}
          /\ deleteChunks' = Tail(deleteChunks)
          /\ xpc' = IF Tail(deleteChunks) # <<>> THEN "deleteVector" ELSE AfterVectors
          /\ UNCHANGED deleteResult
       \/ /\ DeleteDocumentThrows
          /\ UNCHANGED <<storedVectors, deleteChunks>>
    /\ UNCHANGED <<storedDocument, storedChunks, storedGraph, storedFile>>
    /\ UNCHANGED notDeleteVars

\* lines 516-521 and supabaseService.js:48-72
DeleteFileReturns ==
    /\ xpc = "deleteFile"
    /\ \/ /\ storedFile' = FALSE
          /\ xpc' = "selectNodes"
          /\ UNCHANGED deleteResult
       \/ /\ DeleteDocumentThrows
          /\ UNCHANGED storedFile
    /\ UNCHANGED <<storedDocument, storedChunks, storedVectors, storedGraph, deleteChunks>>
    /\ UNCHANGED notDeleteVars

\* supabaseService.js:337-343, memoryGraph.js:622-631 and
\* documentProcessor.js:521-524: the select of the document's node ids.
\* Its error is thrown to MemoryGraph.deleteDocumentGraph, whose catch
\* returns {success: false}; deleteDocument does not look at that result
\* and goes on to supabaseService.deleteDocument
SelectNodesReturns ==
    /\ xpc = "selectNodes"
    /\ \/ /\ xpc' = IF storedGraph.nodes > 0 THEN "deleteEdges" ELSE "deleteChunkRows"
          /\ UNCHANGED deleteResult
       \/ /\ xpc' = "deleteChunkRows"
          /\ UNCHANGED deleteResult
    /\ UNCHANGED <<storedDocument, storedChunks, storedVectors, storedGraph, storedFile,
                   deleteChunks>>
    /\ UNCHANGED notDeleteVars

\* supabaseService.js:345-349: the delete of the edges; its result is not
\* looked at
DeleteEdgesReturns ==
    /\ xpc = "deleteEdges"
    /\ \/ storedGraph' = [storedGraph EXCEPT !.edges = 0]
       \/ UNCHANGED storedGraph
    /\ xpc' = "deleteNodes"
    /\ UNCHANGED <<storedDocument, storedChunks, storedVectors, storedFile, deleteChunks,
                   deleteResult>>
    /\ UNCHANGED notDeleteVars

\* supabaseService.js:350-354: the delete of the nodes; its result is not
\* looked at
DeleteNodesReturns ==
    /\ xpc = "deleteNodes"
    /\ \/ storedGraph' = [storedGraph EXCEPT !.nodes = 0]
       \/ UNCHANGED storedGraph
    /\ xpc' = "deleteChunkRows"
    /\ UNCHANGED <<storedDocument, storedChunks, storedVectors, storedFile, deleteChunks,
                   deleteResult>>
    /\ UNCHANGED notDeleteVars

\* supabaseService.js:176-181: the delete of the chunk rows; its result is
\* not looked at
DeleteChunkRowsReturns ==
    /\ xpc = "deleteChunkRows"
    /\ \/ storedChunks' = <<>>
       \/ UNCHANGED storedChunks
    /\ xpc' = "deleteDocumentRow"
    /\ UNCHANGED <<storedDocument, storedVectors, storedGraph, storedFile, deleteChunks,
                   deleteResult>>
    /\ UNCHANGED notDeleteVars

\* supabaseService.js:182-188 and documentProcessor.js:524-527
DeleteDocumentRowReturns ==
    /\ xpc = "deleteDocumentRow"
    /\ \/ /\ storedDocument' = NoStoredDocument
          /\ xpc' = "create"
          /\ UNCHANGED deleteResult
       \/ /\ DeleteDocumentThrows
          /\ UNCHANGED storedDocument
    /\ UNCHANGED <<storedChunks, storedVectors, storedGraph, storedFile, deleteChunks>>
    /\ UNCHANGED notDeleteVars

\* lines 527-535: notificationService.create resolves; success is returned
DeleteDocumentReturns ==
    /\ xpc = "create"
    /\ deleteResult' = "success"
    /\ xpc' = "done"
    /\ UNCHANGED <<storedDocument, storedChunks, storedVectors, storedGraph, storedFile,
                   deleteChunks>>
    /\ UNCHANGED notDeleteVars

DeleteDocumentNext ==
    \/ DeleteDocumentCall
    \/ DeleteGetDocumentReturns
    \/ GetDocumentChunksReturns
    \/ DeleteVectorReturns
    \/ DeleteFileReturns
    \/ SelectNodesReturns
    \/ DeleteEdgesReturns
    \/ DeleteNodesReturns
    \/ DeleteChunkRowsReturns
    \/ DeleteDocumentRowReturns
    \/ DeleteDocumentReturns

DeleteDocumentInit ==
    /\ storedDocument = NoStoredDocument
    /\ storedChunks = <<>>
    /\ storedVectors = {}
    /\ storedGraph = [nodes |-> 0, edges |-> 0]
    /\ storedFile = FALSE
    /\ deleteChunks = <<>>
    /\ deleteResult = "none"
    /\ xpc = "idle"

(***************************************************************************)
(* VectorDB.initialize and ensureReady, under the index operations that    *)
(* call them (upsertVector, queryVector, ...).  Callers interleave at      *)
(* their awaits; the code between two awaits is one action.                *)
(***************************************************************************)
notVdbVars == <<chunkVars, pdfVars, entVars, relVars, jsonVars, fileVars, docVars, deleteVars, chatVars, cleanVars>>

Callers == 1..MaxCallers

\* the lock is held only while the promise is pending
InitializingPending == vdbInitializing = "pending"

\* vectorDB.js:29: `if (this._initializing)`, a promise is truthy whatever
\* its state
InitializingSet == vdbInitializing # "null"

\* lines 36-50: the initialization body up to its first await; without an
\* API key it throws and the promise is rejected
StartBody(apiKey) ==
    /\ bodyRuns' = bodyRuns + 1
    /\ IF apiKey
       THEN /\ vdbPinecone' = TRUE
            /\ vdbBody' = "listIndexes"
            /\ vdbInitializing' = "pending"
       ELSE /\ vdbBody' = "failed"
            /\ vdbInitializing' = "rejected"
            /\ UNCHANGED vdbPinecone

\* lines 47-50: ensureIndexExists returned; this.index is set and the
\* promise fulfilled
FinishBody ==
    /\ vdbIndex' = TRUE
    /\ vdbBody' = "done"
    /\ vdbInitializing' = "fulfilled"

\* a rejection inside the body rejects the promise
FailBody ==
    /\ vdbBody' = "failed"
    /\ vdbInitializing' = "rejected"
    /\ UNCHANGED vdbIndex

\* lines 91-92, 53-55, 24-52: an index operation calls ensureReady, which
\* calls initialize, up to the await
EnsureReady(c) ==
    /\ caller[c].pc = "idle"
    /\ caller[c].calls < MaxCalls
    /\ IF vdbIndex
       THEN /\ caller' = [caller EXCEPT ![c].pc = "indexOp", ![c].calls = @ + 1]
            /\ UNCHANGED <<vdbPinecone, vdbInitializing, vdbBody, bodyRuns>>
       ELSE IF InitializingSet
       THEN /\ caller' = [caller EXCEPT ![c].pc = "awaitInitializing", ![c].calls = @ + 1]
            /\ UNCHANGED <<vdbPinecone, vdbInitializing, vdbBody, bodyRuns>>
       ELSE /\ caller' = [caller EXCEPT ![c].pc = "awaitInitializing", ![c].calls = @ + 1]
            /\ \E apiKey \in BOOLEAN : StartBody(apiKey)
    /\ UNCHANGED <<vdbIndex, nullIndexOps>>
    /\ UNCHANGED notVdbVars

\* lines 60-67: listIndexes settles; the index exists, or createIndex is called
ListIndexesReturns ==
    /\ vdbBody = "listIndexes"
    /\ \/ FinishBody
       \/ /\ vdbBody' = "createIndex"
          /\ UNCHANGED <<vdbIndex, vdbInitializing>>
       \/ FailBody
    /\ UNCHANGED <<vdbPinecone, bodyRuns, caller, nullIndexOps>>
    /\ UNCHANGED notVdbVars

\* lines 71-86: createIndex settles
CreateIndexReturns ==
    /\ vdbBody = "createIndex"
    /\ \/ FinishBody
       \/ FailBody
    /\ UNCHANGED <<vdbPinecone, bodyRuns, caller, nullIndexOps>>
    /\ UNCHANGED notVdbVars

\* lines 30-31 and 52: `await this._initializing` settles; a rejection is
\* thrown to the caller of the index operation
InitializingSettles(c) ==
    /\ caller[c].pc = "awaitInitializing"
    /\ vdbInitializing \in {"fulfilled", "rejected"}
    /\ caller' = [caller EXCEPT ![c].pc = IF vdbInitializing = "fulfilled" THEN "indexOp" ELSE "idle",
                                ![c].threw = @ \/ vdbInitializing = "rejected"]
    /\ UNCHANGED <<vdbIndex, vdbPinecone, vdbInitializing, vdbBody, bodyRuns, nullIndexOps>>
    /\ UNCHANGED notVdbVars

\* lines 96-106, 129-137: the operation on this.index
IndexOperation(c) ==
    /\ caller[c].pc = "indexOp"
    /\ nullIndexOps' = IF vdbIndex THEN nullIndexOps ELSE nullIndexOps + 1
    /\ caller' = [caller EXCEPT ![c].pc = "idle", ![c].operated = TRUE]
    /\ UNCHANGED <<vdbIndex, vdbPinecone, vdbInitializing, vdbBody, bodyRuns>>
    /\ UNCHANGED notVdbVars

VectorDBNext ==
    \/ \E c \in Callers : EnsureReady(c)
    \/ ListIndexesReturns
    \/ CreateIndexReturns
    \/ \E c \in Callers : InitializingSettles(c)
    \/ \E c \in Callers : IndexOperation(c)

\* lines 6-19: the singleton after construction
VectorDBInit ==
    /\ vdbIndex = FALSE
    /\ vdbPinecone = FALSE
    /\ vdbInitializing = "null"
    /\ vdbBody = "none"
    /\ bodyRuns = 0
    /\ caller = [c \in Callers |-> [pc |-> "idle", calls |-> 0, threw |-> FALSE, operated |-> FALSE]]
    /\ nullIndexOps = 0

(***************************************************************************)
(* ChatService.processQuery and searchDocuments over the one Pinecone      *)
(* index and the `chunks` table that the ingestion runs of all users       *)
(* write to.  A document is ingested as one chunk; vector ids are numbers. *)
(***************************************************************************)
notChatVars == <<chunkVars, pdfVars, entVars, relVars, jsonVars, fileVars, docVars, deleteVars, vdbVars, cleanVars>>

Users == {"U", "V"}

DocumentIds == 1..MaxDocuments

NoQuery == [op |-> "none", userId |-> "none", documentId |-> 0]

\* the sequences that list each element of set S once
Orderings(S) ==
    {seq \in [1..Cardinality(S) -> S] : \A i, j \in 1..Cardinality(S) : seq[i] = seq[j] => i = j}

\* chatService.js:99-116 and 402-406: the filter handed to queryVector,
\* document_id when a documentId is given and null (here 0 and "none")
\* otherwise; the userId is not part of it
Filter(userId, docId) ==
    IF docId # 0 THEN [document_id |-> docId, user_id |-> "none"]
    ELSE [document_id |-> 0, user_id |-> "none"]

\* vectorDB.js:126-138: the vectors of the index a filter lets through
Filtered(filter) ==
    {v \in pineconeVectors :
        /\ filter.document_id # 0 => v.document_id = filter.document_id
        /\ filter.user_id # "none" => v.user_id = filter.user_id}

\* the topK of the call
TopKOf(op) == IF op = "processQuery" THEN QueryTopK ELSE SearchTopK

\* documentProcessor.js:153-209: an ingestion run of user u stores document
\* d: the vector with document_id and user_id in its metadata, and the
\* chunk row carrying the vector id
IngestDocument(u, d) ==
    /\ ownerOf[d] = "none"
    /\ ownerOf' = [ownerOf EXCEPT ![d] = u]
    /\ pineconeVectors' = pineconeVectors \cup {[id |-> d, document_id |-> d, user_id |-> u]}
    /\ chunksTable' = chunksTable \cup {[vector_id |-> d, document_id |-> d]}
    /\ UNCHANGED <<chatQuery, vectorResults, resultIndex, contextChunks, qpc>>
    /\ UNCHANGED notChatVars

\* chatService.js:49-116 and 391-406: user U asks, with or without a
\* documentId; the call awaits queryVector
QueryCall(op, docId) ==
    /\ qpc = "idle"
    /\ chatQuery' = [op |-> op, userId |-> "U", documentId |-> docId]
    /\ qpc' = "queryVector"
    /\ UNCHANGED <<ownerOf, pineconeVectors, chunksTable, vectorResults, resultIndex, contextChunks>>
    /\ UNCHANGED notChatVars

\* vectorDB.js:126-138 and chatService.js:118-141, 408-417: the index
\* returns the topK best matches among the vectors the filter lets through
\* (every cosine score passes minScore = -1)
QueryVectorReturns ==
    /\ qpc = "queryVector"
    /\ \E matches \in SUBSET Filtered(Filter(chatQuery.userId, chatQuery.documentId)) :
          /\ Cardinality(matches) =
                Min2(TopKOf(chatQuery.op),
                     Cardinality(Filtered(Filter(chatQuery.userId, chatQuery.documentId))))
          /\ \E ordered \in Orderings(matches) :
                /\ vectorResults' = ordered
                /\ resultIndex' = 1
                /\ qpc' = IF ordered = <<>> THEN "done" ELSE "getChunkByVectorId"
    /\ UNCHANGED <<ownerOf, pineconeVectors, chunksTable, chatQuery, contextChunks>>
    /\ UNCHANGED notChatVars

\* chatService.js:143-158, 419-433 and supabaseService.js:251-264: the row
\* with the match's vector_id is added to the chunks of the answer; a
\* failed lookup is logged and skipped
GetChunkByVectorIdReturns ==
    /\ qpc = "getChunkByVectorId"
    /\ \/ \E chunk \in {c \in chunksTable : c.vector_id = vectorResults[resultIndex].id} :
             contextChunks' = Append(contextChunks, chunk)
       \/ UNCHANGED contextChunks
    /\ resultIndex' = resultIndex + 1
    /\ qpc' = IF resultIndex = Len(vectorResults) THEN "done" ELSE "getChunkByVectorId"
    /\ UNCHANGED <<ownerOf, pineconeVectors, chunksTable, chatQuery, vectorResults>>
    /\ UNCHANGED notChatVars

ChatNext ==
    \/ \E u \in Users, d \in DocumentIds : IngestDocument(u, d)
    \/ \E op \in {"processQuery", "searchDocuments"}, docId \in {0} \cup DocumentIds :
          QueryCall(op, docId)
    \/ QueryVectorReturns
    \/ GetChunkByVectorIdReturns

\* no document ingested, no call made
ChatInit ==
    /\ ownerOf = [d \in DocumentIds |-> "none"]
    /\ pineconeVectors = {}
    /\ chunksTable = {}
    /\ chatQuery = NoQuery
    /\ vectorResults = <<>>
    /\ resultIndex = 0
    /\ contextChunks = <<>>
    /\ qpc = "idle"

(***************************************************************************)
(* TextCleaner (cleanText.js).  A txt is a sequence of characters.  The   *)
(* regular expressions of the source are given as patterns: a sequence of  *)
(* tokens, each a character class with a repetition or a list of           *)
(* alternative words, with anchors and a lookahead.  Matching is greedy    *)
(* and left to right; in every pattern used here neighbouring tokens take  *)
(* disjoint classes, so that greedy matching is what the regular           *)
(* expression does (the last token gives characters back to reach `$`).    *)
(* The alphabet is ASCII: the rules for the copyright and the pound sign   *)
(* apply to no txt of it.                                                 *)
(***************************************************************************)
notCleanVars == <<chunkVars, pdfVars, entVars, relVars, jsonVars, fileVars, docVars, deleteVars, vdbVars, chatVars>>

UpperChars == {Upper[k] : k \in 1..Len(Upper)}
LowerChars == {Lower[k] : k \in 1..Len(Lower)}
DigitChars == {Digits[k] : k \in 1..Len(Digits)}
LetterChars == UpperChars \cup LowerChars
AlnumChars == LetterChars \cup DigitChars
WordChars == AlnumChars \cup {"_"}
SpaceChars == {" ", "\t", "\n", "\r", "\f"}
LineBreaks == {"\n", "\r"}
ClusterChars == {".", ",", "!", "?", ";", ":"}
SymbolChars == {"-", "'", "@", "|", "/", "+", "(", ")", "[", "]", "#", "&", "*", "=", "<", ">"}
TextChars == WordChars \cup SpaceChars \cup ClusterChars \cup SymbolChars
\* what `.` matches
AnyChars == TextChars \ LineBreaks

ToUpperChar(c) ==
    IF \E j \in 1..Len(Lower) : Lower[j] = c
    THEN Upper[CHOOSE j \in 1..Len(Lower) : Lower[j] = c]
    ELSE c

BothCases(c) == {ToLowerChar(c), ToUpperChar(c)}

\* ---- tokens
One(S) == [in |-> S, min |-> 1, max |-> 1, many |-> FALSE, words |-> <<>>, ci |-> FALSE]
Star(S) == [in |-> S, min |-> 0, max |-> 0, many |-> TRUE, words |-> <<>>, ci |-> FALSE]
Plus(S) == [in |-> S, min |-> 1, max |-> 1, many |-> TRUE, words |-> <<>>, ci |-> FALSE]
AtLeast(S, n) == [in |-> S, min |-> n, max |-> n, many |-> TRUE, words |-> <<>>, ci |-> FALSE]
Times(S, lo, hi) == [in |-> S, min |-> lo, max |-> hi, many |-> FALSE, words |-> <<>>, ci |-> FALSE]
\* one of the words, the first that matches; ci: whatever the case (words in lower case)
OneOf(ws, ci) == [in |-> {}, min |-> 1, max |-> 1, many |-> FALSE, words |-> ws, ci |-> ci]

\* the characters of a word, `.` standing for any character, whatever the case
Wildcards(w) == [k \in 1..Len(w) |-> IF w[k] = "." THEN One(AnyChars) ELSE One(BothCases(w[k]))]

\* ---- patterns
Regex(tokens) ==
    [tokens |-> tokens, from |-> "any", to |-> "any", wordStart |-> FALSE, wordEnd |-> FALSE,
     ahead |-> "none", aheadIn |-> {}]
\* ^...$ with the m flag
WholeLine(tokens) == [Regex(tokens) EXCEPT !.from = "line", !.to = "line"]
\* ^... without the m flag
TextStart(tokens) == [Regex(tokens) EXCEPT !.from = "text"]
\* \b...\b
WholeWord(tokens) == [Regex(tokens) EXCEPT !.wordStart = TRUE, !.wordEnd = TRUE]
\* ...(?=[S]) and ...(?![S])
Before(tokens, S) == [Regex(tokens) EXCEPT !.ahead = "is", !.aheadIn = S]
NotBefore(tokens, S) == [Regex(tokens) EXCEPT !.ahead = "not", !.aheadIn = S]

\* ---- replacements: the text matched by token g, or a literal
Group(g) == [g |-> g, lit |-> <<>>]
Lit(chars) == [g |-> 0, lit |-> chars]

\* F applied to the value of x
Bind(x, F(_)) == CHOOSE r \in {F(v) : v \in {x}} : TRUE

\* ---- matching
\* the first position from i on whose character is not in S
RunEnd(s, i, S) ==
    CHOOSE j \in i..(Len(s) + 1) :
        /\ \A k \in i..(j - 1) : s[k] \in S
        /\ j = Len(s) + 1 \/ s[j] \notin S

WordAt(s, i, w, ci) ==
    /\ i + Len(w) - 1 <= Len(s)
    /\ \A k \in 1..Len(w) : (IF ci THEN ToLowerChar(s[i + k - 1]) ELSE s[i + k - 1]) = w[k]

\* the number of characters the token takes at position i, -1 when a word
\* token finds none of its words
Taken(s, i, token) ==
    IF token.words # <<>>
    THEN IF \E k \in 1..Len(token.words) : WordAt(s, i, token.words[k], token.ci)
         THEN Len(token.words[CHOOSE k \in 1..Len(token.words) :
                                 /\ WordAt(s, i, token.words[k], token.ci)
                                 /\ \A j \in 1..(k - 1) : ~WordAt(s, i, token.words[j], token.ci)])
         ELSE -1
    ELSE IF token.many THEN RunEnd(s, i, token.in) - i
    ELSE Min2(RunEnd(s, i, token.in) - i, token.max)

\* the position after each token when the tokens match from i on, <<>> when
\* they do not
RECURSIVE MatchEnds(_, _, _, _)
MatchEnds(s, i, tokens, ends) ==
    IF Len(ends) = Len(tokens) THEN ends
    ELSE Bind(Taken(s, i, tokens[Len(ends) + 1]), LAMBDA n :
            IF n < tokens[Len(ends) + 1].min THEN <<>>
            ELSE MatchEnds(s, i + n, tokens, Append(ends, i + n)))

AtLineStart(s, i) == i = 1 \/ s[i - 1] \in LineBreaks
AtLineEnd(s, i) == i = Len(s) + 1 \/ s[i] \in LineBreaks
AtWordBoundary(s, i) ==
    (i > 1 /\ s[i - 1] \in WordChars) # (i <= Len(s) /\ s[i] \in WordChars)

\* the match of the pattern that starts at i: the position after each token,
\* <<>> when there is none
Match(s, i, pat) ==
    IF pat.from = "text" /\ i # 1 THEN <<>>
    ELSE IF pat.from = "line" /\ ~AtLineStart(s, i) THEN <<>>
    ELSE IF pat.wordStart /\ ~AtWordBoundary(s, i) THEN <<>>
    ELSE Bind(MatchEnds(s, i, pat.tokens, <<>>), LAMBDA ends :
            LET k    == Len(pat.tokens)
                from == IF k = 1 THEN i ELSE ends[k - 1]
                stops == {e \in (from + pat.tokens[k].min)..ends[k] : AtLineEnd(s, e)}
                end  == IF pat.to = "line" THEN CHOOSE e \in stops : \A f \in stops : f <= e
                        ELSE ends[k]
            IN IF ends = <<>> THEN <<>>
               ELSE IF pat.to = "line" /\ stops = {} THEN <<>>
               ELSE IF pat.wordEnd /\ ~AtWordBoundary(s, end) THEN <<>>
               ELSE IF pat.ahead = "is" /\ ~(end <= Len(s) /\ s[end] \in pat.aheadIn) THEN <<>>
               ELSE IF pat.ahead = "not" /\ (end <= Len(s) /\ s[end] \in pat.aheadIn) THEN <<>>
               ELSE [ends EXCEPT ![k] = end])

\* RegExp.prototype.test
Test(s, pat) ==
    Bind(s, LAMBDA t : Bind(pat, LAMBDA p : \E i \in 1..Len(t) : Match(t, i, p) # <<>>))

\* the replacement of the match at i with the given ends
RECURSIVE Expand(_, _, _, _)
Expand(s, i, ends, rep) ==
    IF Len(rep) = 0 THEN <<>>
    ELSE LET item == Head(rep)
             from == IF item.g <= 1 THEN i ELSE ends[item.g - 1]
             part == IF item.g = 0 THEN item.lit ELSE SubSeq(s, from, ends[item.g] - 1)
         IN part \o Expand(s, i, ends, Tail(rep))

\* the positions at which the scan of a replace looks for a match: 1, next[1],
\* next[next[1]], ...; hop is next applied Len(at) times
RECURSIVE Scan(_, _)
Scan(at, hop) ==
    IF Len(at) >= Len(hop) THEN at
    ELSE Bind(<<at \o [k \in 1..Len(at) |-> hop[at[k]]], [i \in 1..Len(hop) |-> hop[hop[i]]]>>,
              LAMBDA twice : Scan(twice[1], twice[2]))

\* pieces[lo] \o ... \o pieces[hi]
RECURSIVE Concat(_, _, _)
Concat(pieces, lo, hi) ==
    IF lo > hi THEN <<>>
    ELSE IF lo = hi THEN pieces[lo]
    ELSE Concat(pieces, lo, (lo + hi) \div 2) \o Concat(pieces, (lo + hi) \div 2 + 1, hi)

\* String.prototype.replace with the g flag: the text is scanned from the
\* left, a match is replaced and the scan goes on after it
Replace(s, pat, rep) ==
    Bind(<<s, pat, rep>>, LAMBDA call :
        Bind([i \in 1..Len(call[1]) |-> Match(call[1], i, call[2])], LAMBDA found :
            LET matched(i) == found[i] # <<>> /\ found[i][Len(found[i])] # i
                next == [i \in 1..(Len(found) + 1) |->
                            IF i > Len(found) THEN i
                            ELSE IF matched(i) THEN found[i][Len(found[i])] ELSE i + 1]
            IN Bind(SelectSeq(Scan(<<1>>, next), LAMBDA i : i <= Len(found)), LAMBDA at :
                   Concat([k \in 1..Len(at) |->
                              IF matched(at[k]) THEN Expand(call[1], at[k], found[at[k]], call[3])
                              ELSE <<call[1][at[k]]>>], 1, Len(at)))))

RECURSIVE ReplaceRange(_, _, _, _)
ReplaceRange(s, rules, lo, hi) ==
    IF lo > hi THEN s
    ELSE IF lo = hi THEN Replace(s, rules[lo][1], rules[lo][2])
    ELSE Bind(ReplaceRange(s, rules, lo, (lo + hi) \div 2), LAMBDA t :
            ReplaceRange(t, rules, (lo + hi) \div 2 + 1, hi))

\* the replacements of a list applied one after the other
ReplaceEach(s, rules, k) == Bind(s, LAMBDA t : ReplaceRange(t, rules, k, Len(rules)))

\* String.prototype.trim
TrimChars(s) ==
    Bind(s, LAMBDA t :
        IF \A k \in 1..Len(t) : t[k] \in SpaceChars THEN <<>>
        ELSE SubSeq(t, CHOOSE a \in 1..Len(t) : t[a] \notin SpaceChars /\ \A k \in 1..(a - 1) : t[k] \in SpaceChars,
                       CHOOSE b \in 1..Len(t) : t[b] \notin SpaceChars /\ \A k \in (b + 1)..Len(t) : t[k] \in SpaceChars))

CountIn(s, S) == Bind(s, LAMBDA t : Cardinality({k \in 1..Len(t) : t[k] \in S}))

\* ---- cleanText.js:250-255 (of the characters removed, the alphabet has the form feed)
removeNullCharacters(txt) == Bind(txt, LAMBDA t : SelectSeq(t, LAMBDA c : c # "\f"))

\* cleanText.js:257-266
normalizeWhitespace(txt) ==
    TrimChars(ReplaceEach(txt,
       <<<<Regex(<<One({"\r"}), One({"\n"})>>), <<Lit(<<"\n">>)>>>>,
         <<Regex(<<One({"\r"})>>), <<Lit(<<"\n">>)>>>>,
         <<Regex(<<One({"\t"})>>), <<Lit(<<" ", " ", " ", " ">>)>>>>,
         <<Regex(<<Plus({" ", "\t"})>>), <<Lit(<<" ">>)>>>>,
         <<Regex(<<One({"\n"}), Plus({" ", "\t"}), One({"\n"})>>), <<Lit(<<"\n", "\n">>)>>>>,
         <<Regex(<<AtLeast({"\n"}, 3)>>), <<Lit(<<"\n", "\n">>)>>>>
       >>, 1))

\* cleanText.js:268-287
cleanPageHeadersFooters(txt) ==
    ReplaceEach(txt,
       <<<<WholeLine(<<Star(SpaceChars), Plus(DigitChars), Star(SpaceChars)>>), <<>>>>,
         <<WholeLine(<<OneOf(<<<<"p", "a", "g", "e">>>>, TRUE), Plus(SpaceChars), Plus(DigitChars),
                       Plus(SpaceChars), OneOf(<<<<"o", "f">>>>, TRUE), Plus(SpaceChars),
                       Plus(DigitChars)>>), <<>>>>,
         <<WholeLine(<<OneOf(<<<<"c", "o", "n", "f", "i", "d", "e", "n", "t", "i", "a", "l">>>>, TRUE)>>), <<>>>>,
         <<WholeLine(<<OneOf(<<<<"d", "r", "a", "f", "t">>>>, TRUE)>>), <<>>>>,
         <<WholeLine(<<OneOf(<<<<"c", "o", "p", "y", "r", "i", "g", "h", "t">>>>, TRUE), Star(AnyChars)>>), <<>>>>,
         <<WholeLine(<<Times(DigitChars, 1, 2), One({"/"}), Times(DigitChars, 1, 2), One({"/"}),
                       Times(DigitChars, 4, 4)>>), <<>>>>
       >>, 1)

\* cleanText.js:80-84: ocrPatterns
ocrPatterns ==
    <<Regex(<<One({"0", "O", "5"}), Star(SpaceChars), One(LetterChars)>>),
      Regex(<<One({"I", "l", "1"}), Star(SpaceChars), One(LowerChars)>>),
      Regex(<<OneOf(<<<<"d", "a", "s", "s", "r", "o", "o", "m">>,
                      <<"t", "e", "c", "k", "n", "o", "l", "o", "g", "y">>>>, TRUE)>>),
      Regex(<<One(BothCases("f")), One(BothCases("l")), One(AnyChars), One(BothCases("o")),
              One(BothCases("m"))>>)>>

\* cleanText.js:68-87
detectOcrIssues(txt) ==
    Bind(txt, LAMBDA t :
        IF Len(t) < OcrMinLength THEN FALSE
        ELSE LET sample == SubSeq(t, 1, Min2(OcrSampleLength, Len(t)))
                 spaces == CountIn(sample, SpaceChars)
                 chars  == Len(sample) - spaces
             IN \/ spaces * 10 > chars * OcrSpaceTenths
                \/ \E k \in 1..Len(ocrPatterns) : Test(t, ocrPatterns[k]))

\* cleanText.js:109-126: the words rebuilt from a text without its spaces
boundaryRules ==
    <<<<Regex(<<One({".", "!", "?"}), One(UpperChars)>>), <<Group(1), Lit(<<" ">>), Group(2)>>>>,
         <<Regex(<<One(LowerChars), One(UpperChars)>>), <<Group(1), Lit(<<" ">>), Group(2)>>>>,
         <<Regex(<<One(DigitChars), One(LetterChars)>>), <<Group(1), Lit(<<" ">>), Group(2)>>>>,
         <<Regex(<<One(LetterChars), One(DigitChars)>>), <<Group(1), Lit(<<" ">>), Group(2)>>>>
       >> \o
       [k \in 1..8 |->
          <<Regex(<<One(LetterChars),
                    OneOf(<<(<<<<"i", "n", "g">>, <<"e", "d">>, <<"l", "y">>, <<"t", "i", "o", "n">>,
                               <<"m", "e", "n", "t">>, <<"n", "e", "s", "s">>, <<"i", "t", "y">>,
                               <<"a", "l">>>>)[k]>>, TRUE),
                    One(LetterChars)>>),
            <<Group(1), Group(2), Lit(<<" ">>), Group(3)>>>>]

reconstructed(noSpaces) == ReplaceEach(noSpaces, boundaryRules, 1)

\* cleanText.js:92-134
fixOcrSpacing(txt) ==
    Bind(ReplaceEach(txt,
            <<<<TextStart(<<AtLeast(AnyChars \ (AlnumChars \cup SpaceChars), 5)>>), <<>>>>,
              <<TextStart(<<Plus(TextChars \ AlnumChars)>>), <<>>>>>>, 1), LAMBDA unjunked :
        LET spaceCount == CountIn(unjunked, SpaceChars)
            nonSpaceChars == Len(unjunked) - spaceCount
            rebuilt == IF spaceCount * 10 > nonSpaceChars * SpacingSpaceTenths
                          /\ nonSpaceChars > SpacingMinChars
                       THEN reconstructed(SelectSeq(unjunked, LAMBDA c : c \notin SpaceChars))
                       ELSE unjunked
        IN Replace(rebuilt, Regex(<<One(ClusterChars), Plus(ClusterChars)>>), <<Group(1)>>))

\* cleanText.js:139-172
fixOcrCharacters(txt) ==
    ReplaceEach(txt,
       <<<<Before(<<One({"0"})>>, LetterChars), <<Lit(<<"O">>)>>>>,
         <<NotBefore(<<One({"0"})>>, DigitChars), <<Lit(<<"O">>)>>>>,
         <<Before(<<One({"5"})>>, LetterChars), <<Lit(<<"S">>)>>>>,
         <<NotBefore(<<One({"1"})>>, DigitChars), <<Lit(<<"I">>)>>>>,
         <<Before(<<One({"O"})>>, DigitChars), <<Lit(<<"0">>)>>>>,
         <<Before(<<One({"S"})>>, DigitChars), <<Lit(<<"5">>)>>>>,
         <<Before(<<One({"I"})>>, DigitChars), <<Lit(<<"1">>)>>>>,
         <<Before(<<One({"l"})>>, DigitChars), <<Lit(<<"1">>)>>>>,
         <<Regex(<<One({"|"})>>), <<Lit(<<"I">>)>>>>,
         <<Regex(<<One({"@"})>>), <<Lit(<<"a">>)>>>>,
         <<Regex(<<OneOf(<<<<"[", "r", "n", "]">>>>, FALSE)>>), <<Lit(<<"m">>)>>>>,
         <<Regex(<<OneOf(<<<<"c", "l">>>>, FALSE)>>), <<Lit(<<"d">>)>>>>,
         <<Regex(<<OneOf(<<<<"v", "v">>>>, FALSE)>>), <<Lit(<<"w">>)>>>>,
         <<Regex(<<OneOf(<<<<"f", "i", "o", "m">>>>, TRUE)>>), <<Lit(<<"f", "r", "o", "m">>)>>>>,
         <<Regex(<<OneOf(<<<<"f", "l", "-", "o", "m">>>>, TRUE)>>), <<Lit(<<"f", "r", "o", "m">>)>>>>
       >>, 1)

\* cleanText.js:178-210: wordReplacements
wordReplacements ==
    << <<<<"d", "a", "s", "s", "r", "o", "o", "m">>, <<"c", "l", "a", "s", "s", "r", "o", "o", "m">>>>,
       <<<<"t", "e", "c", "k", "n", "o", "l", "o", "g", "y">>, <<"t", "e", "c", "h", "n", "o", "l", "o", "g", "y">>>>,
       <<<<"t", "e", "c", "h", "n", "o", "I", "o", "g", "y">>, <<"t", "e", "c", "h", "n", "o", "l", "o", "g", "y">>>>,
       <<<<"u", "n", "i", "v", "e", "r", "5", "i", "t", "y">>, <<"u", "n", "i", "v", "e", "r", "s", "i", "t", "y">>>>,
       <<<<"5", "t", "u", "d", "e", "n", "t">>, <<"s", "t", "u", "d", "e", "n", "t">>>>,
       <<<<"r", "e", "5", "e", "a", "r", "c", "h">>, <<"r", "e", "s", "e", "a", "r", "c", "h">>>>,
       <<<<"5", "k", "i", "l", "l", "s">>, <<"s", "k", "i", "l", "l", "s">>>>,
       <<<<"e", "x", "p", "e", "r", "i", "5", "e">>, <<"e", "x", "p", "e", "r", "t", "i", "s", "e">>>>,
       <<<<"5", "u", "c", "c", "e", "s", "s">>, <<"s", "u", "c", "c", "e", "s", "s">>>>,
       <<<<"5", "y", "s", "t", "e", "m">>, <<"s", "y", "s", "t", "e", "m">>>>,
       <<<<"E", "t", "i", "t", "i", "v", "e">>, <<"c", "o", "m", "p", "e", "t", "i", "t", "i", "v", "e">>>>,
       <<<<"d", "a", "s", "s", "r", "o", "o", "m">>, <<"c", "l", "a", "s", "s", "r", "o", "o", "m">>>>,
       <<<<"J", "a", "a", "l", "i", "a", "l">>, <<"J", "a", "g", "t", "i", "a", "l">>>>,
       <<<<"J", "p", "a", "i", "l">>, <<"J", "a", "g", "t", "i", "a", "l">>>>,
       <<<<"E", "n", "g", "i", "n", ".", ";", ";", ".", ",", ";", "n", "o">>, <<"E", "n", "g", "i", "n", "e", "e", "r", "i", "n", "g">>>>,
       <<<<"A", "c", ".", " ", "I", "n">>, <<"a", "c", ".", "i", "n">>>>,
       <<<<"j", "n", "t", "u", "h", ".", " ", "A", "c", ".", " ", "I", "n">>, <<"j", "n", "t", "u", "h", ".", "a", "c", ".", "i", "n">>>>,
       <<<<"B", ".", "T", "e", "c", "h">>, <<"B", ".", "T", "e", "c", "h">>>>,
       <<<<"M", ".", "T", "e", "c", "h">>, <<"M", ".", "T", "e", "c", "h">>>>,
       <<<<"P", "h", ".", "D", ".">>, <<"P", "h", ".", "D", ".">>>>,
       <<<<"D", "r", ".">>, <<"D", "r", ".">>>>,
       <<<<"P", "r", "o", "f", ".">>, <<"P", "r", "o", "f", ".">>>>,
       <<<<"M", "r", ".">>, <<"M", "r", ".">>>>,
       <<<<"M", "s", ".">>, <<"M", "s", ".">>>>,
       <<<<"M", "r", "s", ".">>, <<"M", "r", "s", ".">>>> >>

\* cleanText.js:177-218: each word as \bword\b with the flags g and i, its
\* `.` matching any character
wordRules ==
    [k \in 1..Len(wordReplacements) |->
        <<WholeWord(Wildcards(wordReplacements[k][1])), <<Lit(wordReplacements[k][2])>>>>]

fixOcrWords(txt) == ReplaceEach(txt, wordRules, 1)

\* cleanText.js:223-244
fixOcrFormatting(txt) ==
    ReplaceEach(txt,
       <<<<Regex(<<Plus(WordChars), Star(SpaceChars), One({"@"}), Star(SpaceChars), Plus(WordChars)>>),
           <<Group(1), Lit(<<"@">>), Group(5)>>>>,
         <<Regex(<<Plus(WordChars), One({"."}), Star(SpaceChars),
                   OneOf(<<<<"c", "o", "m">>, <<"o", "r", "g">>, <<"e", "d", "u">>, <<"n", "e", "t">>,
                           <<"i", "n">>, <<"a", "c">>>>, TRUE)>>),
           <<Group(1), Lit(<<".">>), Group(4)>>>>,
         <<Regex(<<One(DigitChars), Plus(SpaceChars), One(DigitChars), Plus(SpaceChars),
                   One(DigitChars), Plus(SpaceChars), One(DigitChars), Plus(SpaceChars),
                   One(DigitChars), Plus(SpaceChars), One(DigitChars), Plus(SpaceChars),
                   One(DigitChars), Plus(SpaceChars), One(DigitChars), Plus(SpaceChars),
                   One(DigitChars), Plus(SpaceChars), One(DigitChars)>>),
           <<Group(1), Group(3), Group(5), Group(7), Group(9), Group(11), Group(13), Group(15),
             Group(17), Group(19)>>>>,
         <<WholeWord(<<Times(DigitChars, 10, 10)>>), <<Lit(<<"+", "9", "1", " ">>), Group(1)>>>>,
         <<WholeWord(<<OneOf(<<<<"9", "1">>>>, FALSE), Plus(SpaceChars), Times(DigitChars, 10, 10)>>),
           <<Lit(<<"+", "9", "1", " ">>), Group(3)>>>>,
         <<Regex(<<Times(DigitChars, 4, 4), Star(SpaceChars), One({"-", "_"}), Star(SpaceChars),
                   Times(DigitChars, 2, 2), Star(SpaceChars), One({"-", "_"}), Star(SpaceChars),
                   Times(DigitChars, 2, 2)>>),
           <<Group(1), Lit(<<"-">>), Group(5), Lit(<<"-">>), Group(9)>>>>,
         <<Regex(<<One(WordChars), Star(SpaceChars), One({"-"}), Star(SpaceChars), One(WordChars)>>),
           <<Group(1), Group(5)>>>>,
         <<Regex(<<One(WordChars), Star(SpaceChars), One({"'"}), Star(SpaceChars), One(WordChars)>>),
           <<Group(1), Lit(<<"'">>), Group(5)>>>>
       >>, 1)

\* cleanText.js:302-310
ensureSentenceEndings(txt) ==
    Bind(txt, LAMBDA t :
        IF Len(t) = 0 THEN t
        ELSE IF t[Len(t)] \notin {".", "!", "?"} THEN Append(t, ".")
        ELSE t)

\* the k-th line of the text, split at "\n"
LineOf(txt, k) ==
    LET breaks == {i \in 1..Len(txt) : txt[i] = "\n"}
        nth(n) == IF n = 0 THEN 0
                  ELSE IF n > Cardinality(breaks) THEN Len(txt) + 1
                  ELSE CHOOSE b \in breaks : Cardinality({c \in breaks : c < b}) = n - 1
    IN SubSeq(txt, nth(k - 1) + 1, nth(k) - 1)

\* line 324: the line as the Set remembers it
Simple(line) == Replace(ToLowerCase(TrimChars(line)), Regex(<<Plus(SpaceChars)>>), <<Lit(<<" ">>)>>)

JoinLines(lines) ==
    Concat([k \in 1..Len(lines) |-> IF k = 1 THEN lines[1] ELSE <<"\n">> \o lines[k]], 1, Len(lines))

\* cleanText.js:312-332: a line of 10 characters or more is dropped when an
\* earlier such line is the same but for case and spacing
removeDuplicateLines(txt) ==
    Bind(txt, LAMBDA t :
        Bind([k \in 1..(CountIn(t, {"\n"}) + 1) |-> LineOf(t, k)], LAMBDA lines :
            Bind([k \in 1..Len(lines) |-> Simple(lines[k])], LAMBDA simple :
                LET long(k) == Len(TrimChars(lines[k])) >= DuplicateMinLength
                    unique(k) == ~long(k) \/ \A j \in 1..(k - 1) : ~(long(j) /\ simple[j] = simple[k])
                    kept == SelectSeq([k \in 1..Len(lines) |-> k], unique)
                IN JoinLines([j \in 1..Len(kept) |-> lines[kept[j]]]))))

\* cleanText.js:334-339
finalCleanup(txt) ==
    TrimChars(Replace(txt, Regex(<<Plus(SpaceChars)>>), <<Lit(<<" ">>)>>))

\* cleanText.js:12-59, with the options removeUrls, removeEmails and
\* removeSpecialChars not set (a regular expression does not throw)
clean(txt, fixOCR) ==
    IF Len(txt) = 0 THEN <<>>
    ELSE Bind(cleanPageHeadersFooters(normalizeWhitespace(removeNullCharacters(txt))), LAMBDA basic :
            finalCleanup(removeDuplicateLines(ensureSentenceEndings(
                IF fixOCR \/ detectOcrIssues(basic)
                THEN fixOcrFormatting(fixOcrWords(fixOcrCharacters(fixOcrSpacing(basic))))
                ELSE basic))))

\* ---- inputs
CleanAlphabet == {"a", "0", "-", " "}

ShortTexts == UNION {[1..n -> CleanAlphabet] : n \in 0..MaxCleanLen}

\* the phrase n times, separated by single spaces
RECURSIVE Repeated(_, _)
Repeated(phrase, n) ==
    IF n <= 1 THEN phrase ELSE phrase \o <<" ">> \o Repeated(phrase, n - 1)

Phrases ==
    {<<"s", "u", "n", "n", "y", " ", "d", "a", "y", "s", " ", "c", "o", "m", "e", " ", "b", "a", "c", "k">>,
     <<"h", "e", "l", "l", "o", " ", "w", "o", "r", "l", "d", " ", "o", "n", "c", "e", " ", "m", "o", "r", "e">>,
     <<"a", "n", " ", "O", "d", "e", " ", "t", "o", " ", "j", "o", "y", " ", "b", "y", " ", "h", "a", "n", "d">>,
     <<"a", " ", "b", " ", "c", " ", "d", " ", "e", " ", "f", " ", "g", " ", "h", " ", "m", " ", "j", " ", "k">>,
     <<"s", "u", "n", " ", "a", "t", " ", "7", " ", "p", "m", " ", "o", "n", " ", "d", "a", "y", " ", "9">>,
     <<"t", "h", "e", " ", "d", "a", "s", "s", "r", "o", "o", "m", " ", "w", "a", "s", " ", "b", "u", "s", "y">>,
     <<"t", "e", "l", "l", " ", "a", "-", "b", "-", "c", " ", "f", "o", "l", "k", " ", "t", "a", "l", "k">>}

DetectTexts == {Repeated(p, n) : p \in Phrases, n \in 1..MaxRepeats}

\* ---- the calls
\* lines 12-59: clean(text, options)
CleanCall ==
    /\ tpc = "idle"
    /\ \E txt \in ShortTexts \cup DetectTexts, fixOCR \in BOOLEAN :
          /\ cleanArgs' = [text |-> txt, fixOCR |-> fixOCR]
          /\ cleanedOnce' = clean(txt, fixOCR)
    /\ tpc' = "cleaned"
    /\ UNCHANGED <<cleanedTwice, ocrDetected>>
    /\ UNCHANGED notCleanVars

\* clean called on the text it returned, with the same options
CleanAgain ==
    /\ tpc = "cleaned"
    /\ cleanedTwice' = clean(cleanedOnce, cleanArgs.fixOCR)
    /\ tpc' = "recleaned"
    /\ UNCHANGED <<cleanArgs, cleanedOnce, ocrDetected>>
    /\ UNCHANGED notCleanVars

\* lines 68-87: detectOcrIssues(text)
DetectCall ==
    /\ tpc = "idle"
    /\ \E txt \in DetectTexts \cup ShortTexts :
          /\ cleanArgs' = [text |-> txt, fixOCR |-> FALSE]
          /\ ocrDetected' = detectOcrIssues(txt)
    /\ tpc' = "detected"
    /\ UNCHANGED <<cleanedOnce, cleanedTwice>>
    /\ UNCHANGED notCleanVars

TextCleanerNext == CleanCall \/ CleanAgain \/ DetectCall

TextCleanerInit ==
    /\ cleanArgs = [text |-> <<>>, fixOCR |-> FALSE]
    /\ cleanedOnce = <<>>
    /\ cleanedTwice = <<>>
    /\ ocrDetected = FALSE
    /\ tpc = "idle"

(***************************************************************************)
(* Specifications: one per component, the other components at rest         *)
(***************************************************************************)
ChunkInit == CreateChunksInit /\ ParseInit({}) /\ ExtractInit /\ AnalyzeInit /\ JsonToTextInit /\ ParseFileInit /\ ProcessDocumentInit /\ DeleteDocumentInit /\ VectorDBInit /\ ChatInit /\ TextCleanerInit

ChunkNext == CreateChunksNext

ChunkSpec == ChunkInit /\ [][ChunkNext]_vars

\* the loop is a single thread of control: a step that can be taken is taken
FairChunkSpec == ChunkSpec /\ WF_vars(ChunkNext)

PdfNext == ParseNext

\* one parse call
PdfSingleInit == CreateChunksInit /\ ParseInit({"runA"}) /\ ExtractInit /\ AnalyzeInit /\ JsonToTextInit /\ ParseFileInit /\ ProcessDocumentInit /\ DeleteDocumentInit /\ VectorDBInit /\ ChatInit /\ TextCleanerInit

PdfSingleSpec == PdfSingleInit /\ [][PdfNext]_vars

\* two ingestion runs calling parse on the shared singleton
PdfInit == CreateChunksInit /\ ParseInit(Runs) /\ ExtractInit /\ AnalyzeInit /\ JsonToTextInit /\ ParseFileInit /\ ProcessDocumentInit /\ DeleteDocumentInit /\ VectorDBInit /\ ChatInit /\ TextCleanerInit

PdfSpec == PdfInit /\ [][PdfNext]_vars

\* one extractEntitiesFromChunks call
EntInit == CreateChunksInit /\ ParseInit({}) /\ ExtractInit /\ AnalyzeInit /\ JsonToTextInit /\ ParseFileInit /\ ProcessDocumentInit /\ DeleteDocumentInit /\ VectorDBInit /\ ChatInit /\ TextCleanerInit

EntNext == ExtractNext

EntSpec == EntInit /\ [][EntNext]_vars

\* one analyzeRelationships call
RelInit == CreateChunksInit /\ ParseInit({}) /\ ExtractInit /\ AnalyzeInit /\ JsonToTextInit /\ ParseFileInit /\ ProcessDocumentInit /\ DeleteDocumentInit /\ VectorDBInit /\ ChatInit /\ TextCleanerInit

RelNext == AnalyzeNext

RelSpec == RelInit /\ [][RelNext]_vars

\* one jsonToText call
JsonInit == CreateChunksInit /\ ParseInit({}) /\ ExtractInit /\ AnalyzeInit /\ JsonToTextInit /\ ParseFileInit /\ ProcessDocumentInit /\ DeleteDocumentInit /\ VectorDBInit /\ ChatInit /\ TextCleanerInit

JsonNext == JsonToTextNext

JsonSpec == JsonInit /\ [][JsonNext]_vars

\* one parseFile call
FileInit == CreateChunksInit /\ ParseInit({}) /\ ExtractInit /\ AnalyzeInit /\ JsonToTextInit /\ ParseFileInit /\ ProcessDocumentInit /\ DeleteDocumentInit /\ VectorDBInit /\ ChatInit /\ TextCleanerInit

FileNext == ParseFileNext

FileSpec == FileInit /\ [][FileNext]_vars

\* one ingestion run
DocInit == CreateChunksInit /\ ParseInit({}) /\ ExtractInit /\ AnalyzeInit /\ JsonToTextInit /\ ParseFileInit /\ ProcessDocumentInit /\ DeleteDocumentInit /\ VectorDBInit /\ ChatInit /\ TextCleanerInit

DocNext == ProcessDocumentNext

DocSpec == DocInit /\ [][DocNext]_vars

\* one ingestion run whose PDF is parsed by a PDFParser.parse call
IngestPdfInit == PdfSingleInit

IngestPdfNext ==
    \/ ~PdfAwaited /\ ProcessDocumentNext
    \/ PdfAwaited /\ ParseNext
    \/ DocPdfParseReturns

IngestPdfSpec == IngestPdfInit /\ [][IngestPdfNext]_vars

\* one deleteDocument call
DelInit == CreateChunksInit /\ ParseInit({}) /\ ExtractInit /\ AnalyzeInit /\ JsonToTextInit /\ ParseFileInit /\ ProcessDocumentInit /\ DeleteDocumentInit /\ VectorDBInit /\ ChatInit /\ TextCleanerInit

DelNext == DeleteDocumentNext

DelSpec == DelInit /\ [][DelNext]_vars

\* the callers of one VectorDB singleton
VdbInit == CreateChunksInit /\ ParseInit({}) /\ ExtractInit /\ AnalyzeInit /\ JsonToTextInit /\ ParseFileInit /\ ProcessDocumentInit /\ DeleteDocumentInit /\ VectorDBInit /\ ChatInit /\ TextCleanerInit

VdbNext == VectorDBNext

VdbSpec == VdbInit /\ [][VdbNext]_vars

\* the users of one index: ingestion runs and one query of user U
ChatSpecInit == CreateChunksInit /\ ParseInit({}) /\ ExtractInit /\ AnalyzeInit /\ JsonToTextInit /\ ParseFileInit /\ ProcessDocumentInit /\ DeleteDocumentInit /\ VectorDBInit /\ ChatInit /\ TextCleanerInit

ChatSpecNext == ChatNext

ChatSpec == ChatSpecInit /\ [][ChatSpecNext]_vars

\* calls of TextCleaner.clean and detectOcrIssues
CleanInit == CreateChunksInit /\ ParseInit({}) /\ ExtractInit /\ AnalyzeInit /\ JsonToTextInit /\ ParseFileInit /\ ProcessDocumentInit /\ DeleteDocumentInit /\ VectorDBInit /\ ChatInit /\ TextCleanerInit

CleanNext == TextCleanerNext

CleanSpec == CleanInit /\ [][CleanNext]_vars

(***************************************************************************)
(* Claims about createChunks                                               *)
(***************************************************************************)
ValidParams == chunkSize > overlap /\ overlap >= 0

Returned == cpc = "done"

InChunk(o) == \E i \in 1..Len(chunks) : chunks[i].start <= o /\ o < chunks[i].end

InDroppedSlice(o) == \E d \in dropped : d[1] <= o /\ o < d[2]

StartsIncreasing == \A i \in 1..(Len(chunks) - 1) : chunks[i].start < chunks[i + 1].start

\* no examined slice was dropped between returned chunks i and i+1
NoDropBetween(i) ==
    ~ \E d \in dropped : chunks[i].start < d[1] /\ d[1] < chunks[i + 1].start

FullWindow(i) == chunks[i].end = chunks[i].start + chunkSize

\* C1: createChunks terminates for every text, chunkSize and overlap
\* (every fair run of the loop reaches the return).
C1_Terminates == <>(cpc = "done")

\* C2: for chunkSize > overlap >= 0 the returned chunks carry the indices
\* 0, 1, ..., N-1 in list order and each has start < end <= len(text).
C2_IndicesAndBounds ==
    (Returned /\ ValidParams) =>
        \A i \in 1..Len(chunks) :
            /\ chunks[i].index = i - 1
            /\ chunks[i].start < chunks[i].end
            /\ chunks[i].end <= TextLen(text)

\* C2 witness: a returned list of two chunks with a dropped slice between them
C2_Witness ==
    /\ Returned /\ ValidParams
    /\ Len(chunks) >= 2
    /\ \E d \in dropped : chunks[1].start < d[1] /\ d[1] < chunks[2].start

\* C3: createChunks never holds more than 1000 chunks.
C3_AtMostMaxChunks == Len(chunks) <= MaxChunks

\* C4 as stated: for chunkSize > overlap >= 0 the starts increase strictly and
\* every offset of the text lies in a returned chunk unless it lies only in
\* dropped slices.
C4_CoverageAsStated ==
    (Returned /\ ValidParams) =>
        /\ StartsIncreasing
        /\ \A o \in 0..(TextLen(text) - 1) : InChunk(o) \/ InDroppedSlice(o)

\* C4 amended: for chunkSize > overlap >= 0 the starts increase strictly and
\* every offset of the (truncated) text lies in a returned chunk, or only in
\* dropped slices, or at or after the end of the last chunk emitted when the
\* safety cap stopped the loop.
C4_CoverageUpToCap ==
    (Returned /\ ValidParams) =>
        /\ StartsIncreasing
        /\ \A o \in 0..(TextLen(text) - 1) :
              \/ InChunk(o)
              \/ InDroppedSlice(o)
              \/ (CapReached(chunks) /\ o >= chunks[Len(chunks)].end)

\* C4 witness: the cap stopped the loop before the end of the text
C4_Witness ==
    /\ Returned /\ ValidParams
    /\ CapReached(chunks)
    /\ chunks[Len(chunks)].end < TextLen(text)

\* C5 as stated: for chunkSize > overlap >= 0 consecutive returned chunks
\* overlap by exactly `overlap` offsets.
C5_ExactOverlapAsStated ==
    (Returned /\ ValidParams) =>
        \A i \in 1..(Len(chunks) - 1) : chunks[i].end - chunks[i + 1].start = overlap

\* C5 amended: for chunkSize > overlap >= 0 consecutive returned chunks overlap
\* by at most `overlap` offsets, and by exactly `overlap` precisely when no
\* slice was dropped between them and the first is a full chunkSize window.
C5_OverlapAtMost ==
    (Returned /\ ValidParams) =>
        \A i \in 1..(Len(chunks) - 1) :
            LET d == chunks[i].end - chunks[i + 1].start
            IN /\ d <= overlap
               /\ (d = overlap) <=> (NoDropBetween(i) /\ FullWindow(i))

\* C5 witness: one pair overlapping by exactly `overlap` > 0 and one by less
C5_Witness ==
    /\ Returned /\ ValidParams /\ overlap > 0
    /\ \E i, j \in 1..(Len(chunks) - 1) :
          /\ chunks[i].end - chunks[i + 1].start = overlap
          /\ chunks[j].end - chunks[j + 1].start < overlap

(***************************************************************************)
(* Claims about PDFParser.parse                                            *)
(***************************************************************************)
StageOrder == <<"text", "ocr", "scrape", "guidance">>

IsPrefix(s, t) == Len(s) <= Len(t) /\ \A k \in 1..Len(s) : s[k] = t[k]

Attempted(r, stage) == \E k \in 1..Len(r.stages) : r.stages[k] = stage

\* C6: parse attempts its stages in the order direct text, OCR, byte scraping,
\* guidance, each only after every earlier stage gave too little; a direct
\* extraction of more than 200 characters is returned as text_pdf and no page
\* is rasterized, no OCR worker created and no page recognized in that call.
C6_StageOrder ==
    \A p \in Runs :
        LET r == run[p]
        IN /\ IsPrefix(r.stages, StageOrder)
           /\ Attempted(r, "ocr") => (0 <= r.yield.text /\ r.yield.text <= DirectMinChars)
           /\ Attempted(r, "scrape") => (0 <= r.yield.ocr /\ r.yield.ocr <= OcrMinChars)
           /\ Attempted(r, "guidance") =>
                 (0 <= r.yield.scrape /\ r.yield.scrape <= ScrapeMinChars)
           /\ r.yield.text > DirectMinChars =>
                 /\ r.convertCalls = 0 /\ r.workerCalls = 0 /\ r.recognizeCalls = 0
                 /\ ~ Attempted(r, "ocr")
                 /\ r.pc = "returned" => r.result.quality = "text_pdf"

\* C6 witness: a call that returned a direct extraction of more than 200 characters
C6_Witness ==
    \E p \in Runs :
        /\ run[p].pc = "returned"
        /\ run[p].yield.text > DirectMinChars
        /\ run[p].result.quality = "text_pdf"

\* C7: when a parse call has returned, the OCR worker created for it is
\* terminated, this.ocrWorker is null and the temporary directory is removed.
C7_ReleasedOnReturn ==
    \A p \in Runs :
        run[p].pc = "returned" =>
            /\ ocrWorker = "null"
            /\ workerState[p] # "alive"
            /\ ~ tempDirExists

\* C8: two concurrent parse calls do not interfere: a run reads back and
\* recognizes only its own pages, the page images it has still to read are
\* neither deleted nor overwritten, and the worker its recognize call runs on
\* is not terminated under it.
C8_NoInterference ==
    \A p \in Runs :
        LET r == run[p]
        IN /\ \A k \in 1..Len(r.tempImages) : r.tempImages[k] = p
           /\ r.recognized \subseteq {p}
           /\ r.pc = "readFile" =>
                 (tempDirExists /\ \A k \in r.readIdx..r.nPaths : files[k] = p)
           /\ r.pc = "recognize" => workerState[r.inflight] = "alive"

(***************************************************************************)
(* Claims about MemoryGraph.extractEntitiesFromChunks                      *)
(***************************************************************************)
\* the key of an observation or entry, from its own name and type
KeyString(e) == ToLowerCase(e.name) \o <<"_">> \o e.type

ObservationsOf(key) == SelectSeq(merged, LAMBDA o : KeyString(o) = key)

\* the relevance the stated rule gives for a key's observations, in merge order
RECURSIVE RuleRelevance(_)
RuleRelevance(obs) ==
    IF Len(obs) = 1
    THEN obs[1].relevance
    ELSE (RuleRelevance(SubSeq(obs, 1, Len(obs) - 1)) + obs[Len(obs)].relevance) \div 2

ExampleMerged ==
    /\ Len(merged) = 2
    /\ merged[1].chunk # merged[2].chunk
    /\ {[name |-> merged[k].name, type |-> merged[k].type, relevance |-> merged[k].relevance]
           : k \in 1..2}
         = {Obs(NameAlpha, TypeConcept, 8), Obs(NameLowerAlpha, TypeConcept, 6)}

Entities(arr) ==
    {[name |-> arr[k].name, type |-> arr[k].type, relevance |-> arr[k].relevance,
      count |-> arr[k].count, sources |-> arr[k].sources] : k \in 1..Len(arr)}

\* the map when the chunks from position k on are merged by position
RECURSIVE ByPosition(_, _)
ByPosition(map, k) ==
    IF k >= Len(responses)
    THEN map
    ELSE ByPosition(ForEach(map, responses[k + 1], k), k + 1)

\* C10: the returned entities (name, relevance, count, source chunks, and
\* which of them survive the cut to 50) are those of merging the chunks by
\* original position, whatever the completion order inside a batch.
C10_OrderIndependent ==
    epc = "done" =>
        Entities(allEntities) = Entities(Top(SortByRelevance(Values(ByPosition(<<>>, 0)))))

(***************************************************************************)
(* Claims about MemoryGraph.analyzeRelationships                           *)
(***************************************************************************)
NodePairs == {pair \in (1..Len(nodes)) \X (1..Len(nodes)) : pair[1] < pair[2]}

\* the number of chunks that name both nodes
CoCount(x, y) ==
    Cardinality({k \in 1..Len(relChunks) :
                    Mentions(relChunks[k], x) /\ Mentions(relChunks[k], y)})

Between(es, x, y) == {k \in 1..Len(es) : {es[k].source, es[k].target} = {x.id, y.id}}

CooccurrenceOnly(es) == SelectSeq(es, LAMBDA e : ~ e.ai)

ExampleRelInput ==
    /\ nodes = <<NodeA, NodeB, NodeC>>
    /\ relChunks = << <<"a", " ", "b">>, <<"B", " ", "A">>, <<"b", " ", "c">> >>

\* C11 as stated: the returned edge set has an edge between X and Y exactly
\* when both names occur in at least minCooccurrence chunks, with that number
\* of chunks as weight.
C11_EdgesAsStated ==
    rpc = "done" =>
        \A pair \in NodePairs :
            LET x == nodes[pair[1]]
                y == nodes[pair[2]]
            IN /\ (Between(edges, x, y) # {}) <=> (CoCount(x, y) >= minCooccurrence)
               /\ \A k \in Between(edges, x, y) : edges[k].weight = Count(CoCount(x, y))

\* C11 amended: the counters kept after the filter are exactly the pairs
\* named together in at least minCooccurrence chunks, each with that number
\* as weight; the returned co-occurrence edges are those of them whose
\* createGraphEdge succeeded, at most one per pair; AI edges are added only
\* when fewer than 5 co-occurrence edges were persisted and 2 nodes exist.
C11_CooccurrenceEdges ==
    rpc = "done" =>
        /\ \A pair \in NodePairs :
              LET x == nodes[pair[1]]
                  y == nodes[pair[2]]
                  kept == Between(validEdges, x, y)
                  made == Between(CooccurrenceOnly(edges), x, y)
              IN /\ Cardinality(kept) = (IF CoCount(x, y) >= minCooccurrence THEN 1 ELSE 0)
                 /\ \A k \in kept : validEdges[k].weight = CoCount(x, y)
                 /\ Cardinality(made) <= Cardinality(kept)
                 /\ \A k \in made : CooccurrenceOnly(edges)[k].weight = Count(CoCount(x, y))
                 /\ createFailures = 0 => Cardinality(made) = Cardinality(kept)
        /\ Len(CooccurrenceOnly(edges)) + createFailures = Len(validEdges)
        /\ CooccurrenceOnly(edges) = CooccurrenceOnly(graphEdges)
        /\ (\E k \in 1..Len(edges) : edges[k].ai) =>
              (Len(CooccurrenceOnly(edges)) < FewEdges /\ Len(nodes) >= MinNodes)

\* C11 witness: the example ends with exactly the A-B edge of weight 2
C11_Witness ==
    rpc = "done" /\ ExampleRelInput /\ edges = <<EdgeRow(1, 2, Count(2), FALSE)>>

\* C12: the co-occurrence pass keeps at most one counter and persists at most
\* one edge per unordered node pair, never both an X-to-Y and a Y-to-X one.
C12_OneCounterPerPair ==
    /\ \A i, j \in 1..Len(cooccurrenceMap) :
          i # j => {cooccurrenceMap[i].value.source, cooccurrenceMap[i].value.target}
                     # {cooccurrenceMap[j].value.source, cooccurrenceMap[j].value.target}
    /\ \A i, j \in 1..Len(CooccurrenceOnly(graphEdges)) :
          i # j => {CooccurrenceOnly(graphEdges)[i].source, CooccurrenceOnly(graphEdges)[i].target}
                     # {CooccurrenceOnly(graphEdges)[j].source, CooccurrenceOnly(graphEdges)[j].target}

\* C12 witness: a pair counted in two chunks whose edge was persisted, next to
\* another persisted co-occurrence edge
C12_Witness ==
    /\ rpc = "done"
    /\ \E k \in 1..Len(cooccurrenceMap) : cooccurrenceMap[k].value.weight >= 2
    /\ Len(CooccurrenceOnly(graphEdges)) >= 2

(***************************************************************************)
(* Claims about TextParser.jsonToText                                      *)
(***************************************************************************)
\* the depth cap in force: options.maxDepth, 10 when it is not given
DepthCap(options) == IF options.hasMaxDepth THEN options.maxDepth ELSE DefaultMaxDepth

\* how many arrays and objects enclose the most deeply nested value
RECURSIVE NestingDepth(_)
NestingDepth(data) ==
    IF data.items = <<>> THEN 0
    ELSE 1 + CHOOSE d \in {NestingDepth(data.items[k]) : k \in 1..Len(data.items)} :
                 \A k \in 1..Len(data.items) : NestingDepth(data.items[k]) <= d

\* the text the rule gives: the value's own rendering down to the cap, the
\* placeholder for what lies deeper
RECURSIVE RuleText(_, _, _)
RuleText(data, cap, depth) ==
    IF depth > cap THEN DeepStructure
    ELSE IF data.t = "string" THEN data.s
    ELSE IF data.t = "number" THEN NumberToString(data.n)
    ELSE IF data.t = "boolean" THEN BooleanToString(data.b)
    ELSE IF data.t = "null" THEN <<>>
    ELSE IF data.t = "array"
    THEN Join([k \in 1..Len(data.items) |-> RuleText(data.items[k], cap, depth + 1)],
              <<".", " ">>)
    ELSE Join([k \in 1..Len(data.items) |->
                  data.keys[k] \o <<":", " ">> \o RuleText(data.items[k], cap, depth + 1)],
              <<".", " ">>)

\* C20: for a JSON value nested no deeper than the depth cap, jsonToText
\* returns the string itself for a string, the decimal or boolean text for a
\* number or boolean, the items joined with '. ' for an array and the
\* 'key: value' pairs joined with '. ' for an object; the placeholder
\* replaces only content nested deeper than the cap.
C20_TextAsStated ==
    jpc = "done" => jsonText = RuleText(jsonData, DepthCap(jsonOptions), 0)

\* a call on a value nested no deeper than the cap has returned
C20_Reached ==
    /\ jpc = "done"
    /\ jsonData = JString(<<"h", "i">>)
    /\ jsonOptions = NoOptions
    /\ NestingDepth(jsonData) <= DepthCap(jsonOptions)
    /\ jsonText = DeepStructure

(***************************************************************************)
(* Claims about FileParser.parseFile                                       *)
(***************************************************************************)
\* the text-like extensions other than txt, md and json
TextLike == {Csv, Xml, Html, Htm, Rtf}

\* a non-empty file of acceptable size whose extension is text-like
TextLikeFile ==
    /\ fileBuffer.type = "Buffer"
    /\ fileBuffer.length > 0
    /\ fileBuffer.length <= DefaultMaxFileSize
    /\ filename.type = "string"
    /\ getFileExtension(filename) \in TextLike

\* C19: parseFile on a non-empty file whose extension is csv, xml, html, htm
\* or rtf dispatches to the plain-text strategy and returns success = true.
C19_TextLikeParsed ==
    (fpc = "done" /\ TextLikeFile) =>
        /\ parseResult.success
        /\ parseResult.strategy = "plain"

\* such a call has returned
C19_Reached ==
    /\ fpc = "done"
    /\ TextLikeFile
    /\ parseResult = Failure("Unsupported file type")

(***************************************************************************)
(* Claims about DocumentProcessor.processDocument                          *)
(***************************************************************************)
Written(status) == \E k \in 1..Len(statusWrites) : statusWrites[k] = status

\* C13: buildGraphFromChunks never throws to processDocument: whatever
\* fails in entity extraction, node persistence, edge persistence or the LLM
\* call, it resolves to a graph object (no nodes, no edges and an error
\* field when the process threw), and processDocument goes on to write
\* status completed; failed is written only if a later call of
\* processDocument itself fails.
C13_GraphFailureTolerated ==
    /\ docError # "Graph building failed"
    /\ graphData.error # "none" => (graphData.nodes = 0 /\ graphData.edges = 0)
    /\ graphData.failure # "none" =>
          /\ dpc # "updateCompleted" => (Written(STATUS.COMPLETED) \/ docError # "none")
          /\ docError = "none" => ~Written(STATUS.FAILED)
          /\ docError # "none" => docError = "Update document failed"

\* a run whose graph building threw in entity extraction has returned with
\* the document completed
C13_Witness ==
    /\ dpc = "returned"
    /\ graphData.failure = "extraction"
    /\ graphData.error # "none"
    /\ documents.status = STATUS.COMPLETED
    /\ docError = "none"

\* the background run of the upload route is over
RunFinished == docArgs.existing /\ dpc = "finished"

\* C14: every ingestion run started for an existing document record ends
\* with the record's status completed or failed, with an error message when
\* failed; the status is never left at processing once the run has finished.
C14_TerminalStatus ==
    RunFinished =>
        /\ documents.status \in {STATUS.COMPLETED, STATUS.FAILED}
        /\ documents.status = STATUS.FAILED => documents.error_message # "none"

\* a finished run whose record still says processing
C14_LeftProcessing ==
    /\ RunFinished
    /\ documents.status = STATUS.PROCESSING
    /\ docError # "none"

\* processDocument has returned or thrown
Settled == dpc \in {"returned", "thrown", "finalUpdate", "routeUpdateFailed", "finished"}

\* the run met one of the fatal conditions: text shorter than 10
\* characters, no chunk, or embeddings requested while the embeddings API
\* does not answer
TextTooShort == docError = "Extracted text is too short or empty"
NoChunks == docError = "No chunks created from text"
EmbeddingUnreachable == ~docArgs.gemini /\ Len(docChunks) > 0

\* C15: if the extracted text is shorter than 10 characters, or
\* createChunks returns no chunk, or the embedding collaborator is
\* unreachable, the run aborts: no vector is upserted and no chunk record
\* created, the status is set to failed with the error message, a
\* document-error event is emitted, and completed is never written.
C15_FatalFailureAborts ==
    (Settled /\ (TextTooShort \/ NoChunks \/ EmbeddingUnreachable)) =>
        /\ vectorIndex = {}
        /\ chunkRows = <<>>
        /\ documents.status = STATUS.FAILED
        /\ documents.error_message # "none"
        /\ "document-error" \in events
        /\ ~Written(STATUS.COMPLETED)

\* a run whose embeddings API was unreachable has returned with the
\* document completed and its vectors stored
C15_CompletedUnreachable ==
    /\ dpc = "returned"
    /\ EmbeddingUnreachable
    /\ docArgs.io
    /\ documents.status = STATUS.COMPLETED
    /\ vectorIndex # {}
    /\ docError = "none"

\* the input fails validation: an empty or non-Buffer file, a missing
\* filename, an unsupported extension or an oversize file
InvalidInput ==
    \/ docArgs.fileBuffer.type # "Buffer"
    \/ docArgs.fileBuffer.length = 0
    \/ docArgs.fileBuffer.length > DefaultMaxFileSize
    \/ docArgs.filename.type # "string"
    \/ docArgs.filename.chars = <<>>
    \/ ~isSupportedType(getFileExtension(docArgs.filename))

\* C16: input that fails validation is rejected with no partial side
\* effects: when the error is reported no file has been uploaded and no
\* document, chunk, vector, node or edge record has been created.
C16_RejectedWithoutEffects ==
    (Settled /\ InvalidInput) =>
        /\ docError # "none"
        /\ storageFiles = 0
        /\ (~docArgs.existing => ~documents.exists)
        /\ chunkRows = <<>>
        /\ vectorIndex = {}
        /\ graphRows = [nodes |-> 0, edges |-> 0]

\* an empty file has been rejected after being uploaded and given a
\* document record
C16_UploadedBeforeRejected ==
    /\ dpc = "thrown"
    /\ docArgs.fileBuffer = Buffer(0)
    /\ ~docArgs.existing
    /\ docError = "File parsing failed"
    /\ storageFiles = 1
    /\ documents.exists

\* C17: for every run that ends completed, the persisted num_chunks
\* equals the number of chunks createChunks returns for the cleaned text,
\* exactly that many chunk records and vectors were written for the
\* document, and getChunkByVectorId of each chunk's persisted vector_id
\* returns that same chunk.
C17_ChunksRoundTrip ==
    (Settled /\ documents.status = STATUS.COMPLETED) =>
        /\ documents.num_chunks = Len(createChunks(docText, CHUNK_SIZE, CHUNK_OVERLAP))
        /\ Len(chunkRows) = documents.num_chunks
        /\ Cardinality(vectorIndex) = documents.num_chunks
        /\ \A k \in 1..Len(chunkRows) :
              /\ chunkRows[k].vector_id \in vectorIndex
              /\ getChunkByVectorId(chunkRows[k].vector_id) = chunkRows[k]
              /\ chunkRows[k].chunk_index = k - 1
              /\ chunkRows[k].content = createChunks(docText, CHUNK_SIZE, CHUNK_OVERLAP)[k].content

\* a run over a text of three chunks has ended completed
C17_Witness ==
    /\ dpc = "finished"
    /\ documents.status = STATUS.COMPLETED
    /\ documents.num_chunks = 3
    /\ Len(chunkRows) = 3

(***************************************************************************)
(* Claims about DocumentProcessor.deleteDocument                           *)
(***************************************************************************)
\* C18: after deleteDocument returns success no chunk record, vector, graph
\* node or graph edge of the document remains, even when one of the
\* individual delete calls fails.
C18_DeletedAsUnit ==
    deleteResult = "success" =>
        /\ storedChunks = <<>>
        /\ storedVectors = {}
        /\ storedGraph = [nodes |-> 0, edges |-> 0]

\* success has been returned while the document's nodes and edges are
\* still stored
C18_GraphLeftBehind ==
    /\ deleteResult = "success"
    /\ ~storedDocument.exists
    /\ storedChunks = <<>>
    /\ storedVectors = {}
    /\ storedGraph.nodes > 0

(***************************************************************************)
(* Further claims about createChunks                                       *)
(***************************************************************************)
\* C23: when no slice is dropped and the cap is not reached, the k-th
\* returned chunk (k from 0) has start = k * (chunkSize - overlap) and
\* end = min(start + chunkSize, len(text)); with chunkSize = 500 and
\* overlap = 50 a 1200-character text without whitespace gives exactly 3
\* chunks, with starts 0, 450 and 900.
C23_StartsAndEnds ==
    (Returned /\ dropped = {} /\ ~CapReached(chunks)) =>
        /\ \A i \in 1..Len(chunks) :
              /\ chunks[i].start = (i - 1) * (chunkSize - overlap)
              /\ chunks[i].end = Min2(chunks[i].start + chunkSize, TextLen(text))
        /\ (text = Letters(1200) /\ chunkSize = CHUNK_SIZE /\ overlap = CHUNK_OVERLAP) =>
              /\ Len(chunks) = 3
              /\ chunks[1].start = 0 /\ chunks[2].start = 450 /\ chunks[3].start = 900

\* the 1200-character text has been chunked with the defaults
C23_Witness ==
    /\ Returned /\ dropped = {} /\ ~CapReached(chunks)
    /\ text = Letters(1200) /\ chunkSize = CHUNK_SIZE /\ overlap = CHUNK_OVERLAP
    /\ Len(chunks) = 3

(***************************************************************************)
(* Further claims about MemoryGraph.analyzeRelationships                   *)
(***************************************************************************)
CooccurrenceRows == SelectSeq(graphEdges, LAMBDA row : ~row.ai)

AiRows == SelectSeq(graphEdges, LAMBDA row : row.ai)

\* C25: in one call the LLM is asked for semantic relationships at most
\* once, and only when the co-occurrence stage persisted fewer than 5 edges
\* and at least 2 nodes exist; when 5 or more co-occurrence edges were
\* persisted, or fewer than 2 nodes exist, no AI-generated edge is created.
C25_SemanticOnlyWhenSparse ==
    /\ []((rpc = "chat" \/ AiRows # <<>>) => (Len(CooccurrenceRows) < 5 /\ Len(nodes) >= 2))
    /\ [][/\ rpc \in {"chat", "semantic", "done"} => (rpc' = "chat" => rpc = "chat")
          /\ rpc = "chat" => rpc' # "chat"]_vars

\* the LLM was asked after one co-occurrence edge had been persisted, and
\* an AI-generated edge was created
C25_Witness ==
    /\ rpc = "done"
    /\ Len(CooccurrenceRows) = 1
    /\ Len(AiRows) = 1
    /\ Len(nodes) = 3

\* the unordered pair an edge joins
Pair(edge) == {edge.source, edge.target}

\* C27: the edge list returned by analyzeRelationships has at most one edge
\* per unordered node pair: the semantic pass never persists an edge
\* between two nodes that already have a co-occurrence edge, and never two
\* AI-generated edges for the same pair.
C27_OneEdgePerPair ==
    \A i, j \in 1..Len(edges) : Pair(edges[i]) = Pair(edges[j]) => i = j

\* the returned list holds a co-occurrence edge and an AI-generated edge
\* for the same pair
C27_PairJoinedTwice ==
    /\ rpc = "done"
    /\ \E i, j \in 1..Len(edges) :
          /\ Pair(edges[i]) = Pair(edges[j])
          /\ ~edges[i].ai
          /\ edges[j].ai

\* C26: once the status of a document has been set to completed it is never
\* afterwards changed to failed, neither by a later step of processDocument
\* nor by the upload route's follow-up update and its error handler.
C26_CompletedStays ==
    [][documents.status = STATUS.COMPLETED => documents'.status # STATUS.FAILED]_vars

\* the route's error handler has written failed over completed
C26_FailedAfterCompleted ==
    /\ dpc = "finished"
    /\ documents.status = STATUS.FAILED
    /\ \E k \in 1..Len(statusWrites) : statusWrites[k] = STATUS.COMPLETED

\* a vector of the index that no chunk record carries
Orphan(id) == id \in vectorIndex /\ \A k \in 1..Len(chunkRows) : chunkRows[k].vector_id # id

\* C28: whenever an ingestion run has ended, completed or failed part-way
\* through the chunk loop, every vector upserted to the index has a persisted
\* chunk record carrying its vector_id: no orphan vector remains.
C28_NoOrphanVector ==
    Settled => \A id \in vectorIndex : ~Orphan(id)

\* the run failed in createChunk after the vector of the chunk was upserted
C28_OrphanLeft ==
    /\ dpc = "finished"
    /\ documents.status = STATUS.FAILED
    /\ \E id \in vectorIndex : Orphan(id)

(***************************************************************************)
(* Claims about PDFParser.parse under processDocument                     *)
(***************************************************************************)
\* the parse call of the run has returned
PdfReturned == run["runA"].pc = "returned"

\* every stage of the parse call failed: the direct extraction, the OCR and
\* the byte scraping were attempted and none gave an accepted text
EveryStageFailed ==
    /\ PdfReturned
    /\ run["runA"].stages = <<"text", "ocr", "scrape", "guidance">>

\* the errors of processDocument that come from the text of the document
ParseErrors ==
    {"File parsing failed", "Extracted text is too short or empty", "No chunks created from text"}

\* C24: PDFParser.parse never throws and always returns success = true; when
\* every stage fails it returns the fixed guidance message as the text, with
\* quality needs_conversion, and processDocument treats the run as a
\* success: it chunks, embeds and indexes the guidance message and sets the
\* status completed (a later store or update call may still fail the run).
C24_GuidanceIngested ==
    /\ run["runA"].pc \in {"absent", "idle", "pdfParse", "pdf2json", "ocrStage", "mkdir", "bulk",
                           "readFile", "ocrInit", "createWorker", "addLanguage", "initialize",
                           "ocrLoop", "recognize", "ocrDone", "catch", "finally", "terminate",
                           "rm", "returned"}
    /\ PdfReturned => run["runA"].result.success
    /\ EveryStageFailed =>
          /\ run["runA"].result.text = "getHelpMessage"
          /\ run["runA"].result.quality = "needs_conversion"
    /\ (EveryStageFailed /\ dpc # "parseFile") =>
          /\ docText = HelpMessageCleaned
          /\ docError \notin ParseErrors
          /\ Len(docChunks) = 1
          /\ docChunks[1].content = HelpMessageCleaned
    /\ (EveryStageFailed /\ dpc = "returned") =>
          /\ documents.status = STATUS.COMPLETED
          /\ documents.num_chunks = 1
          /\ Len(chunkRows) = 1
          /\ chunkRows[1].content = HelpMessageCleaned
          /\ chunkRows[1].vector_id \in vectorIndex

C24_Witness ==
    /\ EveryStageFailed
    /\ dpc = "returned"
    /\ documents.status = STATUS.COMPLETED
    /\ Len(chunkRows) = 1
    /\ chunkRows[1].content = HelpMessageCleaned

(***************************************************************************)
(* Claims about VectorDB.initialize                                        *)
(***************************************************************************)
\* C29: for every interleaving of concurrent callers of VectorDB.initialize
\* the initialization body (client creation, ensureIndexExists, setting
\* this.index) is executed at most once in the lifetime of the singleton,
\* even when that attempt fails, and no caller proceeds to an index
\* operation before this.index has been set.
C29_InitializedOnce ==
    /\ bodyRuns <= 1
    /\ \A c \in Callers : caller[c].pc = "indexOp" => vdbIndex
    /\ nullIndexOps = 0

\* the one attempt failed, a caller that came later was turned away, and the
\* body was not started again
C29_Witness ==
    /\ vdbInitializing = "rejected"
    /\ bodyRuns = 1
    /\ \E c, d \in Callers :
          /\ c # d
          /\ caller[c].threw /\ caller[c].calls = 2
          /\ caller[d].threw

\* three callers were served by the one successful attempt
C29_SharedAttempt ==
    /\ bodyRuns = 1
    /\ \A c \in Callers : caller[c].operated

(***************************************************************************)
(* Claims about ChatService.processQuery and searchDocuments               *)
(***************************************************************************)
\* C30: the chunks that processQuery and searchDocuments return to user U
\* always belong to documents owned by U, with or without a documentId, so
\* that the documents of another user never change what U receives.
C30_OwnChunksOnly ==
    qpc = "done" =>
        \A k \in 1..Len(contextChunks) : ownerOf[contextChunks[k].document_id] = chatQuery.userId

\* a call of U without a documentId returned a chunk of a document of V
C30_ForeignChunkReturned ==
    /\ qpc = "done"
    /\ chatQuery.documentId = 0
    /\ \E k \in 1..Len(contextChunks) : ownerOf[contextChunks[k].document_id] = "V"

(***************************************************************************)
(* Claims about TextCleaner                                                *)
(***************************************************************************)
\* the first 500 characters alternate single characters and spaces
SpacedOut(txt) ==
    \A k \in 1..Min2(OcrSampleLength, Len(txt)) :
        IF k % 2 = 1 THEN txt[k] \notin SpaceChars ELSE txt[k] = " "

\* a normal prose paragraph: words of letters separated by single spaces,
\* whitespace at most 40% of the other characters, none of the known garbled
\* words (a text of letters and spaces has no digit next to a letter)
NormalProse(txt) ==
    /\ Len(txt) > 0
    /\ \A k \in 1..Len(txt) : txt[k] \in LetterChars \cup {" "}
    /\ txt[1] # " " /\ txt[Len(txt)] # " "
    /\ \A k \in 1..(Len(txt) - 1) : ~(txt[k] = " " /\ txt[k + 1] = " ")
    /\ CountIn(txt, {" "}) * 10 <= (Len(txt) - CountIn(txt, {" "})) * OcrSpaceTenths
    /\ ~Test(txt, ocrPatterns[3]) /\ ~Test(txt, ocrPatterns[4])
    /\ \A k \in 1..Len(wordReplacements) : ~Test(txt, WholeWord(Wildcards(wordReplacements[k][1])))

\* C21: detectOcrIssues returns true for every text of at least 50
\* characters whose first 500 characters alternate single characters and
\* spaces, and false for every normal prose paragraph.
C21_FlagsSpacedOutOnly ==
    tpc = "detected" =>
        /\ (Len(cleanArgs.text) >= OcrMinLength /\ SpacedOut(cleanArgs.text)) => ocrDetected
        /\ NormalProse(cleanArgs.text) => ~ocrDetected

\* a normal prose paragraph was flagged
C21_ProseFlagged == tpc = "detected" /\ NormalProse(cleanArgs.text) /\ ocrDetected

\* a spaced-out text of 50 characters or more was flagged
C21_SpacedOutFlagged ==
    /\ tpc = "detected"
    /\ Len(cleanArgs.text) >= OcrMinLength /\ SpacedOut(cleanArgs.text)
    /\ ocrDetected

\* C22: for every input string s and fixed options, clean(clean(s)) =
\* clean(s): a second cleaning pass changes nothing.
C22_CleanIdempotent == tpc = "recleaned" => cleanedTwice = cleanedOnce

\* the second pass changed a text cleaned with the options of parseFile,
\* which do not set fixOCR
C22_SecondPassChanges ==
    /\ tpc = "recleaned"
    /\ ~cleanArgs.fixOCR
    /\ cleanedTwice # cleanedOnce

====
